---- MODULE Spec2Model ----
(***************************************************************************)
(* Pseudoku: a Sudoku game that proves a solved grid in zero knowledge.    *)
(*                                                                         *)
(* The module models                                                       *)
(*   - PseudokuGame (src/worker.ts): the candidate grid, the timer, the    *)
(*     generate-proof button, the asynchronous generateProof runs against  *)
(*     the prover (noir.execute, backend.generateProof,                    *)
(*     backend.verifyProof), the gist reference and reset;                 *)
(*   - SudokuValidator (src/src/utils/sudokuValidator.ts): isValid and its *)
(*     helpers, as operators;                                              *)
(*   - GitHubOAuth (src/src/utils/githubOauth.ts): initiateOAuth and       *)
(*     handleCallback over sessionStorage and the token-exchange fetch.    *)
(*   - export and external verification (src/worker.ts: copyProofData,     *)
(*     performVerification): the hex and JSON encodings, as operators.     *)
(*                                                                         *)
(* Grids are functions [0..8 -> [0..8 -> Int]], indexed as in the source.  *)
(* Strings typed by the user are sequences of one-character strings.       *)
(***************************************************************************)
EXTENDS Integers, Sequences, FiniteSets, Bags, TLC

VARIABLES
    \* ---- PseudokuGame fields (src/worker.ts:77-88)
    grid,              \* this.grid
    sinceStart,        \* Date.now() - this.startTime, as last read by the program
    timerInterval,     \* this.timerInterval: TRUE while an interval is registered
    elapsedTime,       \* this.elapsedTime
    fieldElement,      \* this.fieldElement
    proof,             \* this.proof (null or a ProofData)
    proofTime,         \* this.proofTime
    gistUrl,           \* this.gistUrl
    noir,              \* this.noir   !== null
    backend,           \* this.backend !== null
    \* ---- the DOM state the handlers read or write
    generateProofBtnDisabled,   \* generateProofBtn.disabled
    status,                     \* the last showStatus(message, type)
    \* ---- the generateProof invocations that have not completed (a bag)
    runs,
    \* ---- history: TRUE iff the most recent checkSolution returned true and
    \*      this.grid has not been written since
    validated,
    \* ---- sessionStorage and the OAuth callback (src/src/utils/githubOauth.ts)
    oauth_state,       \* sessionStorage['oauth_state'] (null when absent)
    backendUrl,        \* import.meta.env.OAUTH_API_ENDPOINT is set
    callback,          \* the latest handleCallback invocation: its arguments,
                       \* whether it called fetch, and how it ended
    pendingProof,      \* sessionStorage['pendingProof'] (nullItem when absent)
    clientId,          \* import.meta.env.VITE_GITHUB_CLIENT_ID is set
    effects,           \* what the latest postToGitHub did to storage and to the
                       \* location, in the order it did it
    githubCallback,    \* the handleGitHubCallback of the current page load
    \* ---- the grid handed to the validator functions and what they returned
    vgrid,
    vout,
    \* ---- generateFieldElement (src/src/utils/proofUtils.ts:9-23)
    raw,               \* the bytes crypto.getRandomValues wrote in the latest
                       \* iteration (<<>> before the first)
    rand,              \* the loop's outcome so far, and the string returned
    draws,             \* iterations of the loop made so far
    \* ---- external verification and export
    verification,      \* the latest performVerification: its inputs, the
                       \* prover calls it made, and what showVerifyResult showed
    exported,          \* the latest ProofDataExport built, and by which method
                       \* (copyProofData or uploadToGist)
    uploads,           \* the uploadToGist calls in flight, each by the promise
                       \* it awaits
    clipboard,         \* calls of navigator.clipboard.writeText not yet settled
    \* ---- history, kept where a specification needs it
    userEvents,        \* the user events (inputs, clicks, submissions) handled
    observed           \* the generateProof run singled out to be followed

gameVars == <<grid, sinceStart, timerInterval, elapsedTime, fieldElement, proof,
              proofTime, gistUrl, noir, backend, generateProofBtnDisabled,
              status, runs, validated>>
oauthVars == <<oauth_state, backendUrl, callback, pendingProof, clientId, effects,
               githubCallback>>
validatorVars == <<vgrid, vout>>
samplerVars == <<raw, rand, draws>>
exportVars == <<verification, exported, uploads, clipboard>>
historyVars == <<userEvents, observed>>
vars == <<gameVars, oauthVars, validatorVars, samplerVars, exportVars, historyVars>>

\* null, for the fields that hold strings, records and numbers
null == "null"
nullProof == [null |-> TRUE]
nullTime == -1
nullItem == [null |-> TRUE]

(***************************************************************************)
(* Bounds of the model.                                                    *)
(***************************************************************************)
\* generateProof invocations that may be pending at the same time
MaxRuns == 2
\* largest value of Date.now() - startTime the timer callback reads
MaxElapsed == 1
\* iterations of generateFieldElement's loop
MaxDraws == 2
\* clicks on the verify button in one behaviour
MaxVerifications == 1
\* uploadToGist calls that may be in flight at the same time
MaxUploads == 1
\* clipboard writes that may be pending at the same time
MaxCopies == 1

(***************************************************************************)
(* The challenge (src/worker.ts:61-71).                                    *)
(***************************************************************************)
CHALLENGE_PUZZLE ==
    << <<5, 3, 0, 0, 7, 0, 0, 0, 0>>,
       <<6, 0, 0, 1, 9, 5, 0, 0, 0>>,
       <<0, 9, 8, 0, 0, 0, 0, 6, 0>>,
       <<8, 0, 0, 0, 6, 0, 0, 0, 3>>,
       <<4, 0, 0, 8, 0, 3, 0, 0, 1>>,
       <<7, 0, 0, 0, 2, 0, 0, 0, 6>>,
       <<0, 6, 0, 0, 0, 0, 2, 8, 0>>,
       <<0, 0, 0, 4, 1, 9, 0, 0, 5>>,
       <<0, 0, 0, 0, 8, 0, 0, 7, 9>> >>

\* The digits a user who knows the answer types: the solution of the challenge.
SolutionDigits ==
    << <<5, 3, 4, 6, 7, 8, 9, 1, 2>>,
       <<6, 7, 2, 1, 9, 5, 3, 4, 8>>,
       <<1, 9, 8, 3, 4, 2, 5, 6, 7>>,
       <<8, 5, 9, 7, 6, 1, 4, 2, 3>>,
       <<4, 2, 6, 8, 5, 3, 7, 9, 1>>,
       <<7, 1, 3, 9, 2, 4, 8, 5, 6>>,
       <<9, 6, 1, 5, 3, 7, 2, 8, 4>>,
       <<2, 8, 7, 4, 1, 9, 6, 3, 5>>,
       <<3, 4, 5, 2, 8, 6, 1, 7, 9>> >>

Idx == 0..8

\* A 0-indexed grid from rows written as tuples.
GridOf(rows) == [i \in Idx |-> [j \in Idx |-> rows[i + 1][j + 1]]]

\* CHALLENGE_PUZZLE.map((row) => [...row])
ChallengeGrid == GridOf(CHALLENGE_PUZZLE)

\* this.fixedCells[i][j] = CHALLENGE_PUZZLE[i][j] !== 0
fixedCells == [i \in Idx |-> [j \in Idx |-> ChallengeGrid[i][j] # 0]]

(***************************************************************************)
(* SudokuValidator / PseudokuGame: the pure checks.                        *)
(***************************************************************************)
Min(S) == CHOOSE x \in S : \A y \in S : x <= y

RECURSIVE hasAllDigitsFrom(_, _, _)
hasAllDigitsFrom(arr, k, seen) ==
    IF k > Len(arr)
    THEN Cardinality(seen) = 9
    ELSE LET val == arr[k]
         IN IF val < 1 \/ val > 9 \/ val \in seen
            THEN FALSE
            ELSE hasAllDigitsFrom(arr, k + 1, seen \cup {val})

\* Mutant of hasAllDigits: the duplicate test (seen.has(val)) is dropped.
hasAllDigitsNoDup(arr) ==
    \A k \in 1..Len(arr) : arr[k] >= 1 /\ arr[k] <= 9

hasAllDigits(arr) == hasAllDigitsFrom(arr, 1, {})

getRow(g, i) == [k \in 1..9 |-> g[i][k - 1]]

getColumn(g, col) == [k \in 1..9 |-> g[k - 1][col]]

\* Mutant of getBox: the boxes are numbered column by column.
getBoxColumnMajor(g, boxNum) ==
    LET boxRow == (boxNum % 3) * 3
        boxCol == (boxNum \div 3) * 3
    IN [k \in 1..9 |-> g[boxRow + ((k - 1) \div 3)][boxCol + ((k - 1) % 3)]]

getBox(g, boxNum) ==
    LET boxRow == (boxNum \div 3) * 3
        boxCol == (boxNum % 3) * 3
    IN [k \in 1..9 |-> g[boxRow + ((k - 1) \div 3)][boxCol + ((k - 1) % 3)]]

\* Cells are numbered in row-major order, as the nested loops visit them:
\* cell number 9*i + j.
Cells == 0..80

\* Mutant of isValid: the columns are checked before the rows.
isValidColumnsFirst(g) ==
    LET badCells == {c \in Cells : \/ g[c \div 9][c % 9] = 0
                                     \/ g[c \div 9][c % 9] < 1
                                     \/ g[c \div 9][c % 9] > 9}
        badRows == {i \in Idx : ~hasAllDigits(getRow(g, i))}
        badCols == {j \in Idx : ~hasAllDigits(getColumn(g, j))}
        badBoxes == {b \in Idx : ~hasAllDigits(getBox(g, b))}
    IN IF badCells # {}
       THEN LET c == Min(badCells)
                i == c \div 9
                j == c % 9
            IN IF g[i][j] = 0
               THEN [valid |-> FALSE, error |-> <<"empty", i + 1, j + 1>>]
               ELSE [valid |-> FALSE, error |-> <<"invalid", i + 1, j + 1>>]
       ELSE IF badCols # {}
       THEN [valid |-> FALSE, error |-> <<"column", Min(badCols) + 1>>]
       ELSE IF badRows # {}
       THEN [valid |-> FALSE, error |-> <<"row", Min(badRows) + 1>>]
       ELSE IF badBoxes # {}
       THEN [valid |-> FALSE,
             error |-> <<"box", (Min(badBoxes) \div 3) + 1, (Min(badBoxes) % 3) + 1>>]
       ELSE [valid |-> TRUE]

\* Mutant of isValid: the out-of-range cells are looked for before the empty
\* ones.
isValidRangeFirst(g) ==
    LET outCells == {c \in Cells : \/ g[c \div 9][c % 9] < 0
                                     \/ g[c \div 9][c % 9] > 9}
        zeroCells == {c \in Cells : g[c \div 9][c % 9] = 0}
        badRows == {i \in Idx : ~hasAllDigits(getRow(g, i))}
        badCols == {j \in Idx : ~hasAllDigits(getColumn(g, j))}
        badBoxes == {b \in Idx : ~hasAllDigits(getBox(g, b))}
    IN IF outCells # {}
       THEN [valid |-> FALSE,
             error |-> <<"invalid", (Min(outCells) \div 9) + 1, (Min(outCells) % 9) + 1>>]
       ELSE IF zeroCells # {}
       THEN [valid |-> FALSE,
             error |-> <<"empty", (Min(zeroCells) \div 9) + 1, (Min(zeroCells) % 9) + 1>>]
       ELSE IF badRows # {}
       THEN [valid |-> FALSE, error |-> <<"row", Min(badRows) + 1>>]
       ELSE IF badCols # {}
       THEN [valid |-> FALSE, error |-> <<"column", Min(badCols) + 1>>]
       ELSE IF badBoxes # {}
       THEN [valid |-> FALSE,
             error |-> <<"box", (Min(badBoxes) \div 3) + 1, (Min(badBoxes) % 3) + 1>>]
       ELSE [valid |-> TRUE]

\* SudokuValidator.isValid: {valid, error?}
isValid(g) ==
    LET badCells == {c \in Cells : \/ g[c \div 9][c % 9] = 0
                                     \/ g[c \div 9][c % 9] < 1
                                     \/ g[c \div 9][c % 9] > 9}
        badRows == {i \in Idx : ~hasAllDigits(getRow(g, i))}
        badCols == {j \in Idx : ~hasAllDigits(getColumn(g, j))}
        badBoxes == {b \in Idx : ~hasAllDigits(getBox(g, b))}
    IN IF badCells # {}
       THEN LET c == Min(badCells)
                i == c \div 9
                j == c % 9
            IN IF g[i][j] = 0
               THEN [valid |-> FALSE, error |-> <<"empty", i + 1, j + 1>>]
               ELSE [valid |-> FALSE, error |-> <<"invalid", i + 1, j + 1>>]
       ELSE IF badRows # {}
       THEN [valid |-> FALSE, error |-> <<"row", Min(badRows) + 1>>]
       ELSE IF badCols # {}
       THEN [valid |-> FALSE, error |-> <<"column", Min(badCols) + 1>>]
       ELSE IF badBoxes # {}
       THEN [valid |-> FALSE,
             error |-> <<"box", (Min(badBoxes) \div 3) + 1, (Min(badBoxes) % 3) + 1>>]
       ELSE [valid |-> TRUE]

\* for (j = 0; j < 9; j++) if (j !== col && grid[row][j] === value)
\*    { conflicts.push({type: "row", position: row}); break; }
\* the conflicts pushed by the row loop from column j on
RECURSIVE checkRow(_, _, _, _, _)
checkRow(g, row, col, value, j) ==
    IF j > 8 THEN <<>>
    ELSE IF j # col /\ g[row][j] = value
         THEN <<[type |-> "row", position |-> row]>>
         ELSE checkRow(g, row, col, value, j + 1)

\* Mutant of checkRow: the columns of the cell's own box are not scanned.
RECURSIVE checkRowOutsideBox(_, _, _, _, _)
checkRowOutsideBox(g, row, col, value, j) ==
    IF j > 8 THEN <<>>
    ELSE IF j \div 3 # col \div 3 /\ g[row][j] = value
         THEN <<[type |-> "row", position |-> row]>>
         ELSE checkRowOutsideBox(g, row, col, value, j + 1)

\* for (i = 0; i < 9; i++) if (i !== row && grid[i][col] === value)
\*    { conflicts.push({type: "column", position: col}); break; }
RECURSIVE checkColumn(_, _, _, _, _)
checkColumn(g, row, col, value, i) ==
    IF i > 8 THEN <<>>
    ELSE IF i # row /\ g[i][col] = value
         THEN <<[type |-> "column", position |-> col]>>
         ELSE checkColumn(g, row, col, value, i + 1)

\* The nested loops over the box, from its c-th cell on (row-major), given
\* the conflicts pushed so far: the first hit pushes the box conflict and
\* returns the list; with no hit the list is returned after the loops.
RECURSIVE checkBox(_, _, _, _, _, _)
checkBox(g, row, col, value, conflicts, c) ==
    LET boxRow == (row \div 3) * 3
        boxCol == (col \div 3) * 3
        i == boxRow + (c \div 3)
        j == boxCol + (c % 3)
    IN IF c > 8 THEN conflicts
       ELSE IF i # row /\ j # col /\ g[i][j] = value
            THEN Append(conflicts,
                        [type |-> "box",
                         position |-> (row \div 3) * 3 + (col \div 3)])
            ELSE checkBox(g, row, col, value, conflicts, c + 1)

\* Mutant of getConflicts: every other cell of the box counts, those of the
\* same row or column included.
getConflictsWholeBox(g, row, col, value) ==
    LET boxRow == (row \div 3) * 3
        boxCol == (col \div 3) * 3
        boxNum == (row \div 3) * 3 + (col \div 3)
        inRow == \E j \in Idx : j # col /\ g[row][j] = value
        inColumn == \E i \in Idx : i # row /\ g[i][col] = value
        inBox == \E i \in boxRow..(boxRow + 2), j \in boxCol..(boxCol + 2) :
                    (i # row \/ j # col) /\ g[i][j] = value
    IN (IF inRow THEN <<[type |-> "row", position |-> row]>> ELSE <<>>)
          \o (IF inColumn THEN <<[type |-> "column", position |-> col]>> ELSE <<>>)
          \o (IF inBox THEN <<[type |-> "box", position |-> boxNum]>> ELSE <<>>)

\* Mutant of getConflicts: the box is scanned before the column, so that the
\* return on a box hit leaves the column unscanned.
getConflictsBoxBeforeColumn(g, row, col, value) ==
    LET afterRow == checkRow(g, row, col, value, 0)
        afterBox == checkBox(g, row, col, value, afterRow, 0)
    IN IF Len(afterBox) > Len(afterRow)
       THEN afterBox
       ELSE afterBox \o checkColumn(g, row, col, value, 0)

\* Mutant of getConflicts: the row scan leaves out the cell's own box.
getConflictsRowOutsideBox(g, row, col, value) ==
    LET afterRow == checkRowOutsideBox(g, row, col, value, 0)
        afterColumn == afterRow \o checkColumn(g, row, col, value, 0)
    IN checkBox(g, row, col, value, afterColumn, 0)

\* SudokuValidator.getConflicts: the row loop, the column loop, then the box
\* loops, whose first hit returns.
getConflicts(g, row, col, value) ==
    LET afterRow == checkRow(g, row, col, value, 0)
        afterColumn == afterRow \o checkColumn(g, row, col, value, 0)
    IN checkBox(g, row, col, value, afterColumn, 0)

\* PseudokuGame.getConflicts: the labels pushed, in order.
gameGetConflicts(g, row, col, value) ==
    LET boxRow == (row \div 3) * 3
        boxCol == (col \div 3) * 3
        inRow == \E j \in Idx : j # col /\ g[row][j] = value
        inColumn == \E i \in Idx : i # row /\ g[i][col] = value
        inBox == \E i \in boxRow..(boxRow + 2), j \in boxCol..(boxCol + 2) :
                    i # row /\ j # col /\ g[i][j] = value
    IN (IF inRow THEN << <<"Row", row + 1>> >> ELSE <<>>)
          \o (IF inColumn THEN << <<"Column", col + 1>> >> ELSE <<>>)
          \o (IF inBox THEN << <<"Box">> >> ELSE <<>>)

\* Mutant of matchesChallenge: the empty challenge cells are compared too.
matchesChallengeAllCells(solution, challenge) ==
    {c \in Cells : solution[c \div 9][c % 9] # challenge[c \div 9][c % 9]} = {}

\* SudokuValidator.matchesChallenge: false at the first fixed cell that
\* differs, true when the scan ends.
matchesChallenge(solution, challenge) ==
    {c \in Cells : /\ challenge[c \div 9][c % 9] # 0
                   /\ solution[c \div 9][c % 9] # challenge[c \div 9][c % 9]} = {}

\* PseudokuGame.checkSolution: the value it returns and the status it shows.
checkSolutionResult(g) ==
    LET zeroCells == {c \in Cells : g[c \div 9][c % 9] = 0}
        badRows == {i \in Idx : ~hasAllDigits(getRow(g, i))}
        badCols == {j \in Idx : ~hasAllDigits(getColumn(g, j))}
        badBoxes == {b \in Idx : ~hasAllDigits(getBox(g, b))}
    IN IF zeroCells # {}
       THEN [ok |-> FALSE, message |-> <<"Please fill in all cells">>]
       ELSE IF badRows # {}
       THEN [ok |-> FALSE, message |-> <<"Row", Min(badRows) + 1, "is incorrect">>]
       ELSE IF badCols # {}
       THEN [ok |-> FALSE, message |-> <<"Column", Min(badCols) + 1, "is incorrect">>]
       ELSE IF badBoxes # {}
       THEN [ok |-> FALSE, message |-> <<"Box", Min(badBoxes) + 1, "is incorrect">>]
       ELSE [ok |-> TRUE,
             message |-> <<"Solution is correct! You can now generate a proof.">>]

(***************************************************************************)
(* PseudokuGame: inputs, the prover and the state after construction.      *)
(***************************************************************************)
\* Values generateFieldElement returns in the model (decimal strings below p).
FieldSamples == {"11", "12"}

generateFieldElement == FieldSamples

\* The cell the user edits in the model (its solution digit is 1), and what is
\* typed into it.  The other empty cells hold the solution's digit from the
\* start (NearSolvedGrid) or stay empty (ChallengeGrid).
FreeCells == {<<8, 6>>}
\* A cell of the challenge the user tries to type into.
ReadOnlyCells == {<<0, 0>>}
CellInputs == {<<>>, <<"1">>, <<"2">>, <<"0">>, <<"x">>}

Digits == <<"1", "2", "3", "4", "5", "6", "7", "8", "9">>

\* /^[1-9]$/.test(value)
isDigit1to9(value) == Len(value) = 1 /\ \E d \in 1..9 : Digits[d] = value[1]

\* parseInt(value) of a string that passed the test
parseInt(value) == CHOOSE d \in 1..9 : Digits[d] = value[1]

\* The grid after the user typed the solution's digits into every empty cell
\* but the free ones; handleCellInput changes no field other than this.grid.
NearSolvedGrid ==
    [i \in Idx |-> [j \in Idx |->
        IF <<i, j>> \in FreeCells THEN 0 ELSE SolutionDigits[i + 1][j + 1]]]

\* The prover: proof bytes backend.generateProof may return, and the ones
\* backend.verifyProof accepts.
ProofBytes == {<<171>>, <<0>>}
VerifierAccepts(proofData) == proofData.proof = <<171>>

ProverOrder == <<"execute", "generateProof", "verifyProof">>

\* Mutant of NextProverCall: the run goes on to the next step after a throw.
NextProverCallIgnoringThrow(call, outcome) ==
    IF call = "execute" THEN "generateProof"
    ELSE IF call = "generateProof" THEN "verifyProof"
    ELSE "none"

\* generateProof's try block: what is awaited after `call` settled.
NextProverCall(call, outcome) ==
    IF outcome # "ok" THEN "none"
    ELSE IF call = "execute" THEN "generateProof"
    ELSE IF call = "generateProof" THEN "verifyProof"
    ELSE "none"

\* Mutant of StoredProof: the artifact is stored whatever verifyProof said.
StoredProofUnverified(verified, proofData, old) == proofData

\* Mutant of StoredProof: a failed verification clears the stored proof.
StoredProofClearedOnFailure(verified, proofData, old) ==
    IF verified THEN proofData ELSE nullProof

\* if (isValid) { this.proof = proofData; ... }
StoredProof(verified, proofData, old) == IF verified THEN proofData ELSE old

\* showStatus(message, type): the status element keeps the type of the last
\* message shown; its text is not part of the model.
Status(type, message) == type

GameInit ==
    /\ grid \in {ChallengeGrid, NearSolvedGrid}
    /\ sinceStart = 0
    /\ timerInterval = TRUE
    /\ elapsedTime = 0
    /\ fieldElement \in generateFieldElement
    /\ proof = nullProof
    /\ proofTime = nullTime
    /\ gistUrl = null
    /\ noir \in BOOLEAN
    /\ backend \in BOOLEAN
    /\ (backend => noir)
    /\ generateProofBtnDisabled = TRUE
    /\ status = Status("none", <<>>)
    /\ runs = EmptyBag
    /\ validated = FALSE

(***************************************************************************)
(* PseudokuGame: the handlers.                                             *)
(***************************************************************************)
\* Mutant of handleCellInput: the cells of the challenge take input too.
handleCellInputFixedToo(row, col, value) ==
    /\ IF value # <<>> /\ ~isDigit1to9(value)
       THEN UNCHANGED <<grid, validated>>
       ELSE /\ grid' = [grid EXCEPT ![row][col] =
                            IF value # <<>> THEN parseInt(value) ELSE 0]
            /\ validated' = FALSE
    /\ UNCHANGED <<sinceStart, timerInterval, elapsedTime, fieldElement, proof,
                   proofTime, gistUrl, noir, backend, generateProofBtnDisabled,
                   status, runs>>

\* Mutant of handleCellInput: a rejected input empties the cell of the grid
\* as it empties the cell on the page.
handleCellInputClearingRejected(row, col, value) ==
    /\ ~fixedCells[row][col]
    /\ IF value # <<>> /\ ~isDigit1to9(value)
       THEN /\ grid' = [grid EXCEPT ![row][col] = 0]
            /\ validated' = FALSE
       ELSE /\ grid' = [grid EXCEPT ![row][col] =
                            IF value # <<>> THEN parseInt(value) ELSE 0]
            /\ validated' = FALSE
    /\ UNCHANGED <<sinceStart, timerInterval, elapsedTime, fieldElement, proof,
                   proofTime, gistUrl, noir, backend, generateProofBtnDisabled,
                   status, runs>>

\* The input handler of a cell; the cells of the challenge are rendered
\* read-only (renderGrid) and take no input.
handleCellInput(row, col, value) ==
    /\ ~fixedCells[row][col]
    /\ IF value # <<>> /\ ~isDigit1to9(value)
       THEN UNCHANGED <<grid, validated>>
       ELSE /\ grid' = [grid EXCEPT ![row][col] =
                            IF value # <<>> THEN parseInt(value) ELSE 0]
            /\ validated' = FALSE
    /\ UNCHANGED <<sinceStart, timerInterval, elapsedTime, fieldElement, proof,
                   proofTime, gistUrl, noir, backend, generateProofBtnDisabled,
                   status, runs>>

updateTimer ==
    /\ timerInterval
    /\ \E d \in {0, 1} :
          /\ sinceStart + d <= MaxElapsed
          /\ sinceStart' = sinceStart + d
          /\ elapsedTime' = sinceStart + d
    /\ UNCHANGED <<grid, timerInterval, fieldElement, proof, proofTime, gistUrl,
                   noir, backend, generateProofBtnDisabled, status, runs,
                   validated>>

checkSolution ==
    LET res == checkSolutionResult(grid)
    IN /\ IF res.ok
          THEN /\ timerInterval' = FALSE
               /\ status' = Status("success", res.message)
               /\ generateProofBtnDisabled' = FALSE
               /\ validated' = TRUE
          ELSE /\ status' = Status("error", res.message)
               /\ validated' = FALSE
               /\ UNCHANGED <<timerInterval, generateProofBtnDisabled>>
       /\ UNCHANGED <<grid, sinceStart, elapsedTime, fieldElement, proof,
                      proofTime, gistUrl, noir, backend, runs>>

\* A click on generateProofBtn: the synchronous part of generateProof, up to
\* and including the call of noir.execute.
generateProof ==
    /\ ~generateProofBtnDisabled
    /\ BagCardinality(runs) < MaxRuns
    /\ IF ~noir \/ ~backend
       THEN /\ status' = Status("error",
                   <<"Proof system not initialized. Please refresh the page.">>)
            /\ UNCHANGED <<generateProofBtnDisabled, runs>>
       ELSE /\ status' = Status("loading",
                   <<"Generating proof... This may take a moment.">>)
            /\ generateProofBtnDisabled' = TRUE
            /\ runs' = runs (+) SetToBag({[fieldValue |-> fieldElement,
                                            proofData |-> nullProof,
                                            calls |-> <<"execute">>,
                                            rets |-> <<>>]})
    /\ UNCHANGED <<grid, sinceStart, timerInterval, elapsedTime, fieldElement,
                   proof, proofTime, gistUrl, noir, backend, validated>>

\* The prover call a pending run awaits.
Awaited(run) == run.calls[Len(run.calls)]

\* The run goes on: the next prover call is made.
RunContinues(run, outcome, proofData) ==
    /\ runs' = (runs (-) SetToBag({run})) (+) SetToBag({
                  [fieldValue |-> run.fieldValue,
                   proofData |-> proofData,
                   calls |-> Append(run.calls, NextProverCall(Awaited(run), outcome)),
                   rets |-> Append(run.rets, outcome)]})
    /\ UNCHANGED <<grid, sinceStart, timerInterval, elapsedTime, fieldElement,
                   proof, proofTime, gistUrl, noir, backend,
                   generateProofBtnDisabled, status, validated>>

\* Mutant of RunThrows: a failed run draws a new field element.
RunThrowsRedrawing(run) ==
    /\ status' = Status("error", <<"Error generating proof:", Awaited(run)>>)
    /\ generateProofBtnDisabled' = FALSE
    /\ runs' = runs (-) SetToBag({run})
    /\ fieldElement' \in generateFieldElement
    /\ UNCHANGED <<grid, sinceStart, timerInterval, elapsedTime,
                   proof, proofTime, gistUrl, noir, backend, validated>>

\* Mutant of RunThrows: the trigger is not enabled again after a throw.
RunThrowsLeavingDisabled(run) ==
    /\ status' = Status("error", <<"Error generating proof:", Awaited(run)>>)
    /\ runs' = runs (-) SetToBag({run})
    /\ UNCHANGED <<grid, sinceStart, timerInterval, elapsedTime, fieldElement,
                   proof, proofTime, gistUrl, noir, backend, validated,
                   generateProofBtnDisabled>>

\* The catch block and the statements after it.
RunThrows(run) ==
    /\ status' = Status("error", <<"Error generating proof:", Awaited(run)>>)
    /\ generateProofBtnDisabled' = FALSE
    /\ runs' = runs (-) SetToBag({run})
    /\ UNCHANGED <<grid, sinceStart, timerInterval, elapsedTime, fieldElement,
                   proof, proofTime, gistUrl, noir, backend, validated>>

\* noir.execute(inputs) settles for a pending run.
executeSettles(run) ==
    /\ Awaited(run) = "execute"
    /\ \E outcome \in {"ok", "throw"} :
          IF NextProverCall("execute", outcome) # "none"
          THEN RunContinues(run, outcome, nullProof)
          ELSE RunThrows(run)

\* backend.generateProof(witness) settles for a pending run.
generateProofSettles(run) ==
    /\ Awaited(run) = "generateProof"
    /\ \E outcome \in {"ok", "throw"}, bytes \in ProofBytes :
          IF NextProverCall("generateProof", outcome) # "none"
          THEN RunContinues(run, outcome,
                  [proof |-> bytes, publicInputs |-> <<run.fieldValue>>])
          ELSE RunThrows(run)

\* backend.verifyProof(proofData) settles for a pending run.
verifyProofSettles(run) ==
    /\ Awaited(run) = "verifyProof"
    /\ \E threw \in BOOLEAN :
          IF threw
          THEN RunThrows(run)
          ELSE LET proofData == run.proofData
                   verified == VerifierAccepts(proofData)
               IN /\ proof' = StoredProof(verified, proofData, proof)
                  /\ proofTime' = IF verified THEN elapsedTime ELSE proofTime
                  /\ status' =
                        IF verified
                        THEN Status("success",
                                <<"Proof generated and verified successfully!">>)
                        ELSE Status("error",
                                <<"Proof verification failed. Please try again.">>)
                  /\ generateProofBtnDisabled' = FALSE
                  /\ runs' = runs (-) SetToBag({run})
                  /\ UNCHANGED <<grid, sinceStart, timerInterval, elapsedTime,
                                 fieldElement, gistUrl, noir, backend, validated>>

GistUrlInputs == {"", "https://gist.github.com/alice/a1b2c3", "https://example.com/a1"}

\* /^https:\/\/gist\.github\.com\/([^/]+)\/([a-f0-9]+)$/i on the inputs above
gistUrlPattern(url) == url = "https://gist.github.com/alice/a1b2c3"

submitGistUrl(url) ==
    /\ IF url = ""
       THEN /\ status' = Status("error", <<"Please enter a Gist URL">>)
            /\ UNCHANGED gistUrl
       ELSE IF ~gistUrlPattern(url)
       THEN /\ status' = Status("error", <<"Invalid Gist URL.">>)
            /\ UNCHANGED gistUrl
       ELSE /\ gistUrl' = url
            /\ status' = Status("success", <<"Gist URL saved!">>)
    /\ UNCHANGED <<grid, sinceStart, timerInterval, elapsedTime, fieldElement,
                   proof, proofTime, noir, backend, generateProofBtnDisabled,
                   runs, validated>>

\* Mutant of reset: the gist reference survives the reset.
resetKeepingGistUrl(confirmed) ==
    /\ confirmed
    /\ timerInterval' = TRUE
    /\ proof' = nullProof
    /\ fieldElement' \in generateFieldElement
    /\ generateProofBtnDisabled' = TRUE
    /\ grid' = ChallengeGrid
    /\ sinceStart' = 0
    /\ status' = Status("info", <<"Game reset. Good luck!">>)
    /\ validated' = FALSE
    /\ UNCHANGED <<elapsedTime, proofTime, gistUrl, noir, backend, runs>>

\* reset, with the answer given to confirm(); initializeGame and startTimer
\* are part of it.
reset(confirmed) ==
    IF confirmed
    THEN /\ timerInterval' = TRUE
         /\ proof' = nullProof
         /\ gistUrl' = null
         /\ fieldElement' \in generateFieldElement
         /\ generateProofBtnDisabled' = TRUE
         /\ grid' = ChallengeGrid
         /\ sinceStart' = 0
         /\ status' = Status("info", <<"Game reset. Good luck!">>)
         /\ validated' = FALSE
         /\ UNCHANGED <<elapsedTime, proofTime, noir, backend, runs>>
    ELSE UNCHANGED gameVars

(***************************************************************************)
(* GitHubOAuth: initiateOAuth and handleCallback.                          *)
(***************************************************************************)
\* Values generateState returns in the model (hex strings of 16 bytes).
StateNonces == {"a1a1", "b2b2"}

generateState == StateNonces

\* What a callback URL may carry: the states above or a forged one, and a code.
CallbackStates == StateNonces \cup {"ffff"}
CallbackCodes == {"code1", "code2"}

\* access_token values of the exchange response
AccessTokens == {"gho_1", "gho_2"}

Idle == [pc |-> "idle"]

\* handleGitHubCallback found no code and state in the URL of the page.
NoCallback == [pc |-> "done", outcome |-> "noParams"]

\* data.access_token of a body that has no such member
undefined == "undefined"

OAuthInit ==
    /\ oauth_state = null
    /\ backendUrl \in BOOLEAN
    /\ callback = Idle
    /\ pendingProof = nullItem
    /\ clientId \in BOOLEAN
    /\ effects = <<>>
    /\ githubCallback = NoCallback

\* sessionStorage.setItem('oauth_state', state), then the assignment of
\* window.location.href
initiateOAuth ==
    /\ oauth_state' \in generateState
    /\ UNCHANGED <<backendUrl, callback>>

\* Mutant of stateMatches: a callback is let through when no state is stored.
stateMatchesOrAbsent(state, savedState) ==
    savedState = null \/ state = savedState

\* the negation of: state !== savedState
stateMatches(state, savedState) == state = savedState

\* Mutant of handleCallback: the stored state is left in place on a match.
handleCallbackKeepingState(code, state) ==
    /\ LET savedState == oauth_state
           call == [code |-> code, state |-> state, savedState |-> savedState]
       IN IF ~stateMatches(state, savedState)
          THEN callback' = [pc |-> "done", call |-> call, fetched |-> FALSE,
                            threw |-> "Invalid OAuth state"]
          ELSE IF ~backendUrl
          THEN callback' = [pc |-> "done", call |-> call, fetched |-> FALSE,
                            threw |-> "Backend server not configured for OAuth"]
          ELSE callback' = [pc |-> "fetch", call |-> call, fetched |-> TRUE]
    /\ UNCHANGED <<oauth_state, backendUrl>>

\* handleCallback(code, state) up to its first await: the comparison, the
\* clean-up, the configuration check and the call of fetch.
handleCallback(code, state) ==
    /\ LET savedState == oauth_state
           call == [code |-> code, state |-> state, savedState |-> savedState]
       IN IF ~stateMatches(state, savedState)
          THEN /\ callback' = [pc |-> "done", call |-> call, fetched |-> FALSE,
                               threw |-> "Invalid OAuth state"]
               /\ UNCHANGED oauth_state
          ELSE /\ oauth_state' = null
               /\ IF ~backendUrl
                  THEN callback' = [pc |-> "done", call |-> call, fetched |-> FALSE,
                                    threw |-> "Backend server not configured for OAuth"]
                  ELSE callback' = [pc |-> "fetch", call |-> call, fetched |-> TRUE]
    /\ UNCHANGED backendUrl

\* How the fetch of the token exchange settles: a response that is ok, one
\* that is not, or a rejection.
ExchangeResponses == {[kind |-> "ok"], [kind |-> "notOk"], [kind |-> "networkError"]}

\* How response.json() of an ok response settles: a body with an
\* access_token, a body without one, or a rejection.
ExchangeBodies ==
    {[kind |-> "ok", access_token |-> t] : t \in AccessTokens \cup {undefined}}
        \cup {[kind |-> "invalidJson"]}

\* Mutant of exchangeOutcome: a failed exchange is thrown to the caller.
exchangeOutcomeRethrowing(response) ==
    IF response.kind = "ok"
    THEN [returned |-> response.access_token]
    ELSE [threw |-> "Failed to exchange code for token"]

\* The try/catch around the two awaits: what handleCallback returns or
\* throws, given the response that was not ok, the rejection, or the body.
exchangeOutcome(response) ==
    IF response.kind = "ok"
    THEN [returned |-> response.access_token]
    ELSE [returned |-> null]

\* The fetch of the token exchange settles: an ok response is followed by
\* the await of response.json(), anything else ends handleCallback.
exchangeSettles(response) ==
    /\ callback.pc = "fetch"
    /\ IF response.kind = "ok"
       THEN callback' = [pc |-> "json", call |-> callback.call, fetched |-> TRUE]
       ELSE callback' = [pc |-> "done", call |-> callback.call, fetched |-> TRUE,
                         response |-> response] @@ exchangeOutcome(response)
    /\ UNCHANGED <<oauth_state, backendUrl>>

\* response.json() of the token exchange settles.
exchangeJsonSettles(body) ==
    /\ callback.pc = "json"
    /\ callback' = [pc |-> "done", call |-> callback.call, fetched |-> TRUE,
                    response |-> body] @@ exchangeOutcome(body)
    /\ UNCHANGED <<oauth_state, backendUrl>>

\* JSON.stringify and JSON.parse of a ProofDataExport: the text is kept as the
\* value it denotes, tagged as text.
JSONstringify(value) == <<"json", value>>
JSONparse(text) == text[2]

\* new Date().toISOString()
Timestamps == {"2025-01-01T00:00:00.000Z"}

\* The ProofDataExport postToGitHub builds from the stored proof.
PendingExport(timestamp) ==
    [challenge |-> CHALLENGE_PUZZLE,
     challengeId |-> fieldElement,
     proof |-> proof.proof,
     publicInputs |-> proof.publicInputs,
     timeInMs |-> IF proofTime = nullTime \/ proofTime = 0 THEN 0 ELSE proofTime,
     timestamp |-> timestamp]

\* The fields of the PseudokuGame a newly loaded page constructs; what the
\* page before it held in memory is gone (sessionStorage is not).
pageLoad ==
    /\ grid' = ChallengeGrid
    /\ sinceStart' = 0
    /\ timerInterval' = TRUE
    /\ elapsedTime' = 0
    /\ fieldElement' \in generateFieldElement
    /\ proof' = nullProof
    /\ proofTime' = nullTime
    /\ gistUrl' = null
    /\ generateProofBtnDisabled' = TRUE
    /\ runs' = EmptyBag
    /\ validated' = FALSE
    /\ UNCHANGED <<noir, backend>>

\* Mutant of postToGitHub: the flow is started without persisting the proof.
postToGitHubWithoutPersisting ==
    /\ clientId
    /\ effects' = <<"setItem oauth_state", "redirect">>
    /\ initiateOAuth
    /\ UNCHANGED <<gameVars, pendingProof, clientId, githubCallback>>

\* postToGitHub of the OAuth variant of the game: the click handler, which
\* returns on the page it was clicked on.
postToGitHub ==
    /\ IF ~clientId
       THEN /\ status' = Status("info",
                   <<"GitHub OAuth not configured. Use manual token instead.">>)
            /\ effects' = <<>>
            /\ UNCHANGED <<oauth_state, backendUrl, callback, pendingProof>>
       ELSE /\ IF proof # nullProof
               THEN /\ \E timestamp \in Timestamps :
                          pendingProof' = JSONstringify(PendingExport(timestamp))
                    /\ effects' = <<"setItem pendingProof", "setItem oauth_state",
                                    "redirect">>
               ELSE /\ UNCHANGED pendingProof
                    /\ effects' = <<"setItem oauth_state", "redirect">>
            /\ initiateOAuth
            /\ UNCHANGED status
    /\ UNCHANGED <<grid, sinceStart, timerInterval, elapsedTime, fieldElement,
                   proof, proofTime, gistUrl, noir, backend,
                   generateProofBtnDisabled, runs, validated>>
    /\ UNCHANGED <<clientId, githubCallback>>

\* The load of a page whose URL carries code and state: the constructor of
\* the new PseudokuGame runs handleGitHubCallback up to its first await.
handleGitHubCallback(code, state) ==
    /\ pageLoad
    /\ handleCallback(code, state)
    /\ IF "threw" \in DOMAIN callback'
       THEN /\ status' = Status("error", <<"OAuth authentication failed">>)
            /\ githubCallback' = [pc |-> "done", outcome |-> "threw"]
       ELSE /\ githubCallback' = [pc |-> "handleCallback"]
            /\ status' = Status("none", <<>>)
    /\ UNCHANGED <<pendingProof, clientId, effects>>

\* The load of a page whose URL carries no code or no state.
handleGitHubCallbackWithoutParams ==
    /\ pageLoad
    /\ status' = Status("none", <<>>)
    /\ githubCallback' = NoCallback
    /\ callback' = Idle
    /\ UNCHANGED <<oauth_state, backendUrl, pendingProof, clientId, effects>>

\* handleGitHubCallback after handleCallback settled one of its awaits: it
\* goes on only when handleCallback has returned; the token is tested and
\* createGist is called.
resumeGitHubCallback ==
    IF callback'.pc # "done"
    THEN UNCHANGED <<status, githubCallback>>
    ELSE IF "threw" \in DOMAIN callback'
    THEN /\ status' = Status("error", <<"OAuth authentication failed">>)
         /\ githubCallback' = [pc |-> "done", outcome |-> "threw"]
    ELSE IF callback'.returned \in {null, undefined}
    THEN /\ status' = Status("error",
                <<"OAuth failed. Please use manual token instead.">>)
         /\ githubCallback' = [pc |-> "done", outcome |-> "noToken"]
    ELSE IF pendingProof = nullItem
    THEN /\ githubCallback' = [pc |-> "done", outcome |-> "nothingPending"]
         /\ UNCHANGED status
    ELSE /\ githubCallback' = [pc |-> "createGist",
                               token |-> callback'.returned,
                               proofData |-> JSONparse(pendingProof)]
         /\ UNCHANGED status

\* The fetch of handleCallback settles while handleGitHubCallback awaits
\* handleCallback.
handleCallbackSettles(response) ==
    /\ githubCallback.pc = "handleCallback"
    /\ exchangeSettles(response)
    /\ resumeGitHubCallback
    /\ UNCHANGED <<grid, sinceStart, timerInterval, elapsedTime, fieldElement,
                   proof, proofTime, gistUrl, noir, backend,
                   generateProofBtnDisabled, runs, validated>>
    /\ UNCHANGED <<pendingProof, clientId, effects>>

\* response.json() of handleCallback settles while handleGitHubCallback
\* awaits handleCallback.
handleCallbackJsonSettles(body) ==
    /\ githubCallback.pc = "handleCallback"
    /\ exchangeJsonSettles(body)
    /\ resumeGitHubCallback
    /\ UNCHANGED <<grid, sinceStart, timerInterval, elapsedTime, fieldElement,
                   proof, proofTime, gistUrl, noir, backend,
                   generateProofBtnDisabled, runs, validated>>
    /\ UNCHANGED <<pendingProof, clientId, effects>>

\* How the fetch of POST /gists settles.
GistResponses == {[kind |-> "ok"], [kind |-> "notOk"], [kind |-> "networkError"]}

\* How response.json() of POST /gists settles: a body (the gist, or the
\* error of a response that was not ok), or a rejection.
GistBodies ==
    {[kind |-> "ok", html_url |-> "https://gist.github.com/alice/a1b2c3"],
     [kind |-> "invalidJson"]}

\* The fetch of createGist settles: response.json() is awaited next,
\* whether the response is ok or not; a rejection is thrown to
\* handleGitHubCallback.
createGistSettles(response) ==
    /\ githubCallback.pc = "createGist"
    /\ IF response.kind = "networkError"
       THEN /\ status' = Status("error", <<"OAuth authentication failed">>)
            /\ githubCallback' = [pc |-> "done", outcome |-> "threw"]
       ELSE /\ githubCallback' =
                  [githubCallback EXCEPT !.pc = IF response.kind = "ok"
                                                THEN "createGistJson"
                                                ELSE "createGistErrorJson"]
            /\ UNCHANGED status
    /\ UNCHANGED <<grid, sinceStart, timerInterval, elapsedTime, fieldElement,
                   proof, proofTime, gistUrl, noir, backend,
                   generateProofBtnDisabled, runs, validated>>
    /\ UNCHANGED <<oauth_state, backendUrl, callback, pendingProof, clientId,
                   effects>>

\* Mutant of createGistJsonSettles: the pending export is removed whatever
\* the outcome.
createGistJsonSettlesClearingAlways(body) ==
    /\ githubCallback.pc \in {"createGistJson", "createGistErrorJson"}
    /\ pendingProof' = nullItem
    /\ IF githubCallback.pc = "createGistJson" /\ body.kind = "ok"
       THEN /\ gistUrl' = body.html_url
            /\ status' = Status("success", <<"Gist created successfully!">>)
            /\ githubCallback' = [pc |-> "done", outcome |-> "published"]
       ELSE /\ status' = Status("error", <<"OAuth authentication failed">>)
            /\ githubCallback' = [pc |-> "done", outcome |-> "threw"]
            /\ UNCHANGED gistUrl
    /\ UNCHANGED <<grid, sinceStart, timerInterval, elapsedTime, fieldElement,
                   proof, proofTime, noir, backend, generateProofBtnDisabled,
                   runs, validated>>
    /\ UNCHANGED <<oauth_state, backendUrl, callback, clientId, effects>>

\* response.json() of createGist settles, and what handleGitHubCallback does
\* next: the gist of an ok response is recorded and the pending export
\* removed; the error of a response that was not ok, or a rejection, is
\* thrown.
createGistJsonSettles(body) ==
    /\ githubCallback.pc \in {"createGistJson", "createGistErrorJson"}
    /\ IF githubCallback.pc = "createGistJson" /\ body.kind = "ok"
       THEN /\ gistUrl' = body.html_url
            /\ status' = Status("success", <<"Gist created successfully!">>)
            /\ pendingProof' = nullItem
            /\ githubCallback' = [pc |-> "done", outcome |-> "published"]
       ELSE /\ status' = Status("error", <<"OAuth authentication failed">>)
            /\ githubCallback' = [pc |-> "done", outcome |-> "threw"]
            /\ UNCHANGED <<gistUrl, pendingProof>>
    /\ UNCHANGED <<grid, sinceStart, timerInterval, elapsedTime, fieldElement,
                   proof, proofTime, noir, backend, generateProofBtnDisabled,
                   runs, validated>>
    /\ UNCHANGED <<oauth_state, backendUrl, callback, clientId, effects>>

(***************************************************************************)
(* The validator functions applied to test grids.                          *)
(***************************************************************************)
\* Cell values written into the test grids range over -1..MaxCellValue.
MaxCellValue == 10

SolvedGrid == GridOf(SolutionDigits)

SetCell(g, i, j, v) == [g EXCEPT ![i][j] = v]
SwapRows(g, a, b) ==
    [i \in Idx |-> IF i = a THEN g[b] ELSE IF i = b THEN g[a] ELSE g[i]]
SwapColumns(g, a, b) ==
    [i \in Idx |-> [j \in Idx |->
        IF j = a THEN g[i][b] ELSE IF j = b THEN g[i][a] ELSE g[i][j]]]
SwapInRow(g, i, a, b) ==
    [g EXCEPT ![i] = [j \in Idx |->
        IF j = a THEN g[i][b] ELSE IF j = b THEN g[i][a] ELSE g[i][j]]]

\* Cells and values for the grids with two cells overwritten.
TwoCellPositions == {<<0, 0>>, <<0, 8>>, <<4, 4>>, <<8, 8>>}
TwoCellValues == {-1, 0, 5, 10}

\* The solved grid, the challenge, and the solved grid with one or two cells
\* overwritten, two rows or two columns exchanged, or two cells of a row
\* exchanged.
TestGrids ==
    {SolvedGrid, ChallengeGrid}
        \cup {SetCell(SetCell(SolvedGrid, p[1], p[2], v), q[1], q[2], w) :
                 p \in TwoCellPositions, q \in TwoCellPositions,
                 v \in TwoCellValues, w \in TwoCellValues}
        \cup {SetCell(SolvedGrid, i, j, v) : i \in Idx, j \in Idx, v \in (-1)..MaxCellValue}
        \cup {SwapRows(SolvedGrid, ab[1], ab[2]) : ab \in Idx \X Idx}
        \cup {SwapColumns(SolvedGrid, ab[1], ab[2]) : ab \in Idx \X Idx}
        \cup {SwapInRow(SolvedGrid, i, ab[1], ab[2]) : i \in {0, 4, 8}, ab \in Idx \X Idx}

NotApplied == [applied |-> FALSE]

ValidatorInit ==
    /\ vgrid \in TestGrids
    /\ vout = [isValid |-> NotApplied, checkSolution |-> NotApplied]

applyIsValid ==
    /\ vout' = [vout EXCEPT !.isValid = [applied |-> TRUE, result |-> isValid(vgrid)]]
    /\ UNCHANGED vgrid

applyCheckSolution ==
    /\ vout' = [vout EXCEPT !.checkSolution =
                    [applied |-> TRUE, result |-> checkSolutionResult(vgrid)]]
    /\ UNCHANGED vgrid

(***************************************************************************)
(* Export and external verification: the encodings.                        *)
(*                                                                         *)
(* A text (a textarea's value, a JSON text, a hex string) is the sequence  *)
(* of its characters; a Uint8Array is the sequence of its bytes.           *)
(***************************************************************************)
LowerHex == <<"0", "1", "2", "3", "4", "5", "6", "7", "8", "9",
              "a", "b", "c", "d", "e", "f">>
UpperHex == <<"0", "1", "2", "3", "4", "5", "6", "7", "8", "9",
              "A", "B", "C", "D", "E", "F">>

\* The characters \s matches among those of the model: space, newline, tab.
Whitespace == {" ", "\n", "\t"}

\* [0-9a-fA-F]
isHexDigit(ch) == \E d \in 1..16 : LowerHex[d] = ch \/ UpperHex[d] = ch

\* parseInt(ch, 16) of one hex digit
hexValue(ch) == (CHOOSE d \in 1..16 : LowerHex[d] = ch \/ UpperHex[d] = ch) - 1

\* b.toString(16).padStart(2, "0")
byteToHex(b) == <<LowerHex[(b \div 16) + 1], LowerHex[(b % 16) + 1]>>

RECURSIVE join(_)
join(texts) == IF texts = <<>> THEN <<>> ELSE Head(texts) \o join(Tail(texts))

\* Mutant of proofToHex: the digits are not padded to two per byte.
proofToHexUnpadded(bytes) ==
    join([k \in 1..Len(bytes) |->
            IF bytes[k] < 16 THEN <<LowerHex[bytes[k] + 1]>> ELSE byteToHex(bytes[k])])

\* Array.from(proof).map((b) => b.toString(16).padStart(2, "0")).join("")
proofToHex(bytes) == join([k \in 1..Len(bytes) |-> byteToHex(bytes[k])])

\* String.prototype.trim
RECURSIVE trimStart(_)
trimStart(text) ==
    IF text # <<>> /\ Head(text) \in Whitespace THEN trimStart(Tail(text)) ELSE text
RECURSIVE trimEnd(_)
trimEnd(text) ==
    IF text # <<>> /\ text[Len(text)] \in Whitespace
    THEN trimEnd(SubSeq(text, 1, Len(text) - 1))
    ELSE text
trim(text) == trimEnd(trimStart(text))

\* .replace(/^0x/, "")
strip0x(text) ==
    IF Len(text) >= 2 /\ text[1] = "0" /\ text[2] = "x"
    THEN SubSeq(text, 3, Len(text))
    ELSE text

\* .replace(/\s/g, "")
removeWhitespace(text) == SelectSeq(text, LAMBDA ch : ch \notin Whitespace)

\* Mutant of cleanHex: whitespace inside the text is kept.
cleanHexTrimOnly(proofHexInput) == strip0x(trim(proofHexInput))

\* proofHexInput.trim().replace(/^0x/, "").replace(/\s/g, "")
cleanHex(proofHexInput) == removeWhitespace(strip0x(trim(proofHexInput)))

\* Mutant of hexFormatOk: the length may be odd.
hexFormatOkAnyLength(cleanProofHex) ==
    /\ cleanProofHex # <<>>
    /\ \A k \in 1..Len(cleanProofHex) : isHexDigit(cleanProofHex[k])

\* /^[0-9a-fA-F]+$/.test(cleanProofHex) && cleanProofHex.length % 2 === 0
hexFormatOk(cleanProofHex) ==
    /\ cleanProofHex # <<>>
    /\ \A k \in 1..Len(cleanProofHex) : isHexDigit(cleanProofHex[k])
    /\ Len(cleanProofHex) % 2 = 0

\* Mutant of hexToBytes: the two digits of a byte are read in the other order.
hexToBytesSwapped(cleanProofHex) ==
    [k \in 1..((Len(cleanProofHex) + 1) \div 2) |->
        IF 2 * k <= Len(cleanProofHex)
        THEN 16 * hexValue(cleanProofHex[2 * k]) + hexValue(cleanProofHex[2 * k - 1])
        ELSE hexValue(cleanProofHex[2 * k - 1])]

\* new Uint8Array(cleanProofHex.match(/.{1,2}/g).map((byte) => parseInt(byte, 16)))
hexToBytes(cleanProofHex) ==
    [k \in 1..((Len(cleanProofHex) + 1) \div 2) |->
        IF 2 * k <= Len(cleanProofHex)
        THEN 16 * hexValue(cleanProofHex[2 * k - 1]) + hexValue(cleanProofHex[2 * k])
        ELSE hexValue(cleanProofHex[2 * k - 1])]

(***************************************************************************)
(* JSON texts (JSON.parse, JSON.stringify).                                *)
(*                                                                         *)
(* A parsed value is a record: a string [kind, chars], a non-negative      *)
(* integer [kind, num], null, true, false, an empty object, or an array    *)
(* [kind, items].  The texts of the model hold no other JSON form          *)
(* (fractions, exponents, signs, \u escapes, non-empty objects).           *)
(***************************************************************************)
jsString(chars) == [kind |-> "string", chars |-> chars]
jsNumber(num) == [kind |-> "number", num |-> num]
jsArray(items) == [kind |-> "array", items |-> items]
SyntaxError == [ok |-> FALSE]
Parsed(value, next) == [ok |-> TRUE, value |-> value, next |-> next]

DecimalDigits == <<"0", "1", "2", "3", "4", "5", "6", "7", "8", "9">>
isDecimalDigit(ch) == \E d \in 1..10 : DecimalDigits[d] = ch
digitValue(ch) == (CHOOSE d \in 1..10 : DecimalDigits[d] = ch) - 1

\* The first position at or after k that holds no JSON whitespace.
RECURSIVE skipWs(_, _)
skipWs(text, k) ==
    IF k <= Len(text) /\ text[k] \in Whitespace THEN skipWs(text, k + 1) ELSE k

\* A string, from the position after its opening quote.
RECURSIVE parseString(_, _, _)
parseString(text, k, acc) ==
    IF k > Len(text) THEN SyntaxError
    ELSE IF text[k] = "\"" THEN Parsed(jsString(acc), k + 1)
    ELSE IF text[k] = "\\"
    THEN IF k + 1 > Len(text) THEN SyntaxError
         ELSE IF text[k + 1] \in {"\"", "\\", "/"}
         THEN parseString(text, k + 2, Append(acc, text[k + 1]))
         ELSE IF text[k + 1] = "n" THEN parseString(text, k + 2, Append(acc, "\n"))
         ELSE IF text[k + 1] = "t" THEN parseString(text, k + 2, Append(acc, "\t"))
         ELSE SyntaxError
    ELSE IF text[k] \in {"\n", "\t"} THEN SyntaxError
    ELSE parseString(text, k + 1, Append(acc, text[k]))

\* The digits of an integer after its first.
RECURSIVE parseDigits(_, _, _)
parseDigits(text, k, acc) ==
    IF k <= Len(text) /\ isDecimalDigit(text[k])
    THEN parseDigits(text, k + 1, 10 * acc + digitValue(text[k]))
    ELSE Parsed(jsNumber(acc), k)

startsWith(text, k, word) ==
    /\ k + Len(word) - 1 <= Len(text)
    /\ SubSeq(text, k, k + Len(word) - 1) = word

RECURSIVE parseValue(_, _)
RECURSIVE parseElements(_, _, _)
parseValue(text, k) ==
    IF k > Len(text) THEN SyntaxError
    ELSE IF text[k] = "["
    THEN LET j == skipWs(text, k + 1)
         IN IF j <= Len(text) /\ text[j] = "]"
            THEN Parsed(jsArray(<<>>), j + 1)
            ELSE parseElements(text, j, <<>>)
    ELSE IF text[k] = "\"" THEN parseString(text, k + 1, <<>>)
    ELSE IF text[k] = "0" THEN Parsed(jsNumber(0), k + 1)
    ELSE IF isDecimalDigit(text[k]) THEN parseDigits(text, k + 1, digitValue(text[k]))
    ELSE IF text[k] = "{"
    THEN LET j == skipWs(text, k + 1)
         IN IF j <= Len(text) /\ text[j] = "}"
            THEN Parsed([kind |-> "object"], j + 1)
            ELSE SyntaxError
    ELSE IF startsWith(text, k, <<"n", "u", "l", "l">>)
    THEN Parsed([kind |-> "null"], k + 4)
    ELSE IF startsWith(text, k, <<"t", "r", "u", "e">>)
    THEN Parsed([kind |-> "true"], k + 4)
    ELSE IF startsWith(text, k, <<"f", "a", "l", "s", "e">>)
    THEN Parsed([kind |-> "false"], k + 5)
    ELSE SyntaxError

parseElements(text, k, acc) ==
    LET v == parseValue(text, k)
    IN IF ~v.ok THEN SyntaxError
       ELSE LET j == skipWs(text, v.next)
            IN IF j > Len(text) THEN SyntaxError
               ELSE IF text[j] = ","
               THEN parseElements(text, skipWs(text, j + 1), Append(acc, v.value))
               ELSE IF text[j] = "]"
               THEN Parsed(jsArray(Append(acc, v.value)), j + 1)
               ELSE SyntaxError

\* JSON.parse(text): the value, or a SyntaxError thrown.
JSONparseText(text) ==
    LET v == parseValue(text, skipWs(text, 1))
    IN IF v.ok /\ skipWs(text, v.next) = Len(text) + 1
       THEN [ok |-> TRUE, value |-> v.value]
       ELSE SyntaxError

\* JSON.stringify of a string: quoted, with its escapes.
RECURSIVE escaped(_)
escaped(chars) ==
    IF chars = <<>> THEN <<>>
    ELSE (IF Head(chars) = "\"" THEN <<"\\", "\"">>
          ELSE IF Head(chars) = "\\" THEN <<"\\", "\\">>
          ELSE IF Head(chars) = "\n" THEN <<"\\", "n">>
          ELSE IF Head(chars) = "\t" THEN <<"\\", "t">>
          ELSE <<Head(chars)>>) \o escaped(Tail(chars))

quoted(chars) == <<"\"">> \o escaped(chars) \o <<"\"">>

spaces(n) == [k \in 1..n |-> " "]

\* Mutant of stringifyStrings: the strings are written without escapes.
stringifyStringsUnescaped(strings, level) ==
    IF strings = <<>> THEN <<"[", "]">>
    ELSE <<"[">>
         \o join([k \in 1..Len(strings) |->
                    (IF k > 1 THEN <<",">> ELSE <<>>)
                       \o <<"\n">> \o spaces(2 * (level + 1))
                       \o <<"\"">> \o strings[k] \o <<"\"">>])
         \o <<"\n">> \o spaces(2 * level) \o <<"]">>

\* JSON.stringify(value, null, 2) for an array of strings found `level`
\* objects deep.
stringifyStrings(strings, level) ==
    IF strings = <<>> THEN <<"[", "]">>
    ELSE <<"[">>
         \o join([k \in 1..Len(strings) |->
                    (IF k > 1 THEN <<",">> ELSE <<>>)
                       \o <<"\n">> \o spaces(2 * (level + 1)) \o quoted(strings[k])])
         \o <<"\n">> \o spaces(2 * level) \o <<"]">>

(***************************************************************************)
(* PseudokuGame.performVerification (src/worker.ts:585-657).               *)
(***************************************************************************)
IdleVerification == [pc |-> "idle", count |-> 0]

\* showVerifyResult(message, success); NoResult while nothing was shown.
VerifyResult(message, success) == [message |-> message, success |-> success]
NoResult == [message |-> "", success |-> FALSE]

\* proofArray and publicInputs once both were decoded; NotDecoded before.
NotDecoded == [ok |-> FALSE]
Decoded(proofArray, publicInputs) ==
    [ok |-> TRUE, proof |-> proofArray, publicInputs |-> publicInputs]

\* Mutant of publicInputsOk: every element must be a string.
publicInputsOkStringsOnly(parsed) ==
    /\ parsed.ok
    /\ parsed.value.kind = "array"
    /\ \A k \in 1..Len(parsed.value.items) : parsed.value.items[k].kind = "string"

\* The inner try block: JSON.parse did not throw and Array.isArray holds.
publicInputsOk(parsed) ==
    /\ parsed.ok
    /\ parsed.value.kind = "array"

\* performVerification up to and including the call of backend.verifyProof.
\* One verification is followed at a time.
performVerification(publicInputsInput, proofHexInput) ==
    /\ verification.pc # "verifyProof"
    /\ verification.count < MaxVerifications
    /\ LET parsed == JSONparseText(publicInputsInput)
           cleanProofHex == cleanHex(proofHexInput)
           rejected(message, decoded) ==
               [pc |-> "done", count |-> verification.count + 1,
                publicInputsInput |-> publicInputsInput,
                proofHexInput |-> proofHexInput, calls |-> <<>>,
                decoded |-> decoded, result |-> VerifyResult(message, FALSE)]
       IN verification' =
             IF publicInputsInput = <<>> \/ proofHexInput = <<>>
             THEN rejected("Please enter both public inputs and proof hex", NotDecoded)
             ELSE IF ~publicInputsOk(parsed)
             THEN rejected("Invalid public inputs format. Expected JSON array of strings.",
                           NotDecoded)
             ELSE IF ~hexFormatOk(cleanProofHex)
             THEN rejected("Invalid proof hex format", NotDecoded)
             ELSE IF ~backend
             THEN rejected("Proof system not initialized",
                           Decoded(hexToBytes(cleanProofHex), parsed.value.items))
             ELSE [pc |-> "verifyProof", count |-> verification.count + 1,
                   publicInputsInput |-> publicInputsInput,
                   proofHexInput |-> proofHexInput, calls |-> <<"verifyProof">>,
                   decoded |-> Decoded(hexToBytes(cleanProofHex), parsed.value.items),
                   result |-> NoResult]
    /\ UNCHANGED <<gameVars, exported, uploads, clipboard>>

VerifyResponses == {"true", "false", "throw"}

\* What performVerification shows once verifyProof settled.
verifyOutcome(response) ==
    IF response = "true" THEN VerifyResult("Valid proof!", TRUE)
    ELSE IF response = "false" THEN VerifyResult("Invalid proof", FALSE)
    ELSE VerifyResult("Error:", FALSE)

\* Mutant of externalVerifySettles: a proof found valid is kept as the
\* session's own.
externalVerifySettlesStoring(response) ==
    /\ verification.pc = "verifyProof"
    /\ verification' = [verification EXCEPT !.pc = "done",
                                            !.result = verifyOutcome(response)]
    /\ proof' = IF response = "true"
                THEN [proof |-> verification.decoded.proof,
                      publicInputs |-> verification.decoded.publicInputs]
                ELSE proof
    /\ UNCHANGED <<grid, sinceStart, timerInterval, elapsedTime, fieldElement,
                   proofTime, gistUrl, noir, backend, generateProofBtnDisabled,
                   status, runs, validated, exported, uploads,
                   clipboard>>

\* backend.verifyProof(proof) settles: the rest of performVerification.
externalVerifySettles(response) ==
    /\ verification.pc = "verifyProof"
    /\ verification' = [verification EXCEPT !.pc = "done",
                                            !.result = verifyOutcome(response)]
    /\ UNCHANGED <<gameVars, exported, uploads, clipboard>>

NoExport == [by |-> "none"]

\* new Date().toISOString() at the time of an export
ExportTimestamps == {"2025-01-01T00:00:00.000Z"}

\* this.proofTime || 0
proofTimeOrZero == IF proofTime = nullTime THEN 0 ELSE proofTime

\* ProofUtils.prepareProofExport(proof, challengeId, timeInMs)
prepareProofExport(proofData, challengeId, timeInMs, timestamp) ==
    [challengeId |-> challengeId,
     proof |-> proofToHex(proofData.proof),
     publicInputs |-> proofData.publicInputs,
     timeInMs |-> timeInMs,
     timestamp |-> timestamp]

\* PseudokuGame.copyFieldElement: copyToClipboard up to its await.
copyFieldElement ==
    /\ clipboard < MaxCopies
    /\ clipboard' = clipboard + 1
    /\ UNCHANGED <<gameVars, verification, exported, uploads>>

\* PseudokuGame.copyProofData: the export is built and copyToClipboard runs
\* up to its await.
copyProofData ==
    /\ IF proof = nullProof
       THEN /\ status' = Status("error", <<"No proof to copy">>)
            /\ UNCHANGED <<exported, clipboard>>
       ELSE /\ clipboard < MaxCopies
            /\ \E timestamp \in ExportTimestamps :
                  exported' =
                     [by |-> "copyProofData",
                      value |-> [challengeId |-> fieldElement,
                                 proof |-> proofToHex(proof.proof),
                                 publicInputs |-> proof.publicInputs,
                                 timeInMs |-> proofTimeOrZero,
                                 timestamp |-> timestamp]]
            /\ clipboard' = clipboard + 1
            /\ UNCHANGED status
    /\ UNCHANGED <<grid, sinceStart, timerInterval, elapsedTime, fieldElement,
                   proof, proofTime, gistUrl, noir, backend,
                   generateProofBtnDisabled, runs, validated, verification,
                   uploads>>

\* navigator.clipboard.writeText settles: the rest of copyToClipboard, which
\* marks the button when the text was written and shows an error when not.
clipboardSettles(written) ==
    /\ clipboard > 0
    /\ clipboard' = clipboard - 1
    /\ status' = IF written THEN status
                 ELSE Status("error", <<"Failed to copy to clipboard">>)
    /\ UNCHANGED <<grid, sinceStart, timerInterval, elapsedTime, fieldElement,
                   proof, proofTime, gistUrl, noir, backend,
                   generateProofBtnDisabled, runs, validated, verification,
                   exported, uploads>>

\* PseudokuGame.giveHint: both branches only show a message.
giveHint ==
    /\ status' = Status("info",
          IF \E i \in Idx, j \in Idx : grid[i][j] = 0
          THEN <<"Hint: Try using the process of elimination for empty cells.">>
          ELSE <<"No empty cells to fill!">>)
    /\ UNCHANGED <<grid, sinceStart, timerInterval, elapsedTime, fieldElement,
                   proof, proofTime, gistUrl, noir, backend,
                   generateProofBtnDisabled, runs, validated>>

\* The value of the githubToken input.
GithubTokens == {"", "ghp_token"}

\* PseudokuGame.uploadToGist up to and including the call of fetch: the
\* export is built and sent as the content of the gist's file.
uploadToGist(token) ==
    /\ IF token = ""
       THEN /\ status' = Status("error",
                   <<"Please enter a GitHub Personal Access Token">>)
            /\ UNCHANGED <<uploads, exported>>
       ELSE IF proof = nullProof
       THEN /\ status' = Status("error",
                   <<"No proof to upload. Generate a proof first.">>)
            /\ UNCHANGED <<uploads, exported>>
       ELSE /\ BagCardinality(uploads) < MaxUploads
            /\ status' = Status("loading", <<"Uploading to GitHub Gist...">>)
            /\ \E timestamp \in ExportTimestamps :
                  exported' =
                     [by |-> "uploadToGist",
                      value |-> [challengeId |-> fieldElement,
                                 proof |-> proofToHex(proof.proof),
                                 publicInputs |-> proof.publicInputs,
                                 timeInMs |-> proofTimeOrZero,
                                 timestamp |-> timestamp]]
            /\ uploads' = uploads (+) SetToBag({"fetch"})
    /\ UNCHANGED <<grid, sinceStart, timerInterval, elapsedTime, fieldElement,
                   proof, proofTime, gistUrl, noir, backend,
                   generateProofBtnDisabled, runs, validated, verification,
                   clipboard>>

\* What fetch does: a response that is ok, one that is not, or a rejection.
UploadResponses == {[kind |-> "ok"], [kind |-> "notOk"], [kind |-> "networkError"]}

\* What response.json() does: a body (the gist, or the error of a response
\* that was not ok), or a rejection.
UploadBodies ==
    {[kind |-> "ok", html_url |-> "https://gist.github.com/alice/d4e5f6"],
     [kind |-> "invalidJson"]}

\* The fetch of an uploadToGist settles: response.json() is awaited next,
\* whether the response is ok or not; a rejection is caught and shown.
uploadSettles(response) ==
    /\ BagIn("fetch", uploads)
    /\ IF response.kind = "networkError"
       THEN /\ uploads' = uploads (-) SetToBag({"fetch"})
            /\ status' = Status("error", <<"Error uploading to GitHub">>)
       ELSE /\ uploads' = (uploads (-) SetToBag({"fetch"})) (+)
                             SetToBag({IF response.kind = "ok"
                                       THEN "json" ELSE "errorJson"})
            /\ UNCHANGED status
    /\ UNCHANGED <<grid, sinceStart, timerInterval, elapsedTime, fieldElement,
                   proof, proofTime, gistUrl, noir, backend,
                   generateProofBtnDisabled, runs, validated, verification,
                   exported, clipboard>>

\* response.json() of an uploadToGist settles: the rest of uploadToGist.
\* awaited is which of the two awaits of response.json() it is.
uploadJsonSettles(awaited, body) ==
    /\ awaited \in {"json", "errorJson"}
    /\ BagIn(awaited, uploads)
    /\ uploads' = uploads (-) SetToBag({awaited})
    /\ IF body.kind # "ok"
       THEN /\ status' = Status("error", <<"Error uploading to GitHub">>)
            /\ UNCHANGED gistUrl
       ELSE IF awaited = "json"
       THEN /\ gistUrl' = body.html_url
            /\ status' = Status("success", <<"Gist created successfully!">>)
       ELSE /\ status' = Status("error", <<"Failed to create gist">>)
            /\ UNCHANGED gistUrl
    /\ UNCHANGED <<grid, sinceStart, timerInterval, elapsedTime, fieldElement,
                   proof, proofTime, noir, backend, generateProofBtnDisabled,
                   runs, validated, verification, exported, clipboard>>

ExportInit ==
    /\ verification = IdleVerification
    /\ exported = NoExport
    /\ uploads = EmptyBag
    /\ clipboard = 0

\* No user event was handled yet and no run is followed.
NoRun == [none |-> TRUE]
HistoryInit ==
    /\ userEvents = 0
    /\ observed = NoRun

\* What the user types or pastes into publicInputsInput.
PublicInputsTexts ==
    {<<>>,
     <<"[", "]">>,
     <<"[", "\"", "0", "x", "0", "a", "\"", "]">>,
     <<"[", "\"", "a", "\"", ",", " ", "\"", "b", "\"", "]">>,
     <<"[", "1", "]">>,
     <<"[", "\"", "a", "\"", ",", " ", "1", "]">>,
     <<"[", "n", "u", "l", "l", "]">>,
     <<"[", "[", "\"", "a", "\"", "]", "]">>,
     <<"{", "}">>,
     <<"\"", "a", "\"">>,
     <<"1">>,
     <<"n", "u", "l", "l">>,
     <<"[">>,
     <<"[", "\"", "a", "\"">>,
     <<"[", "\"", "a", "\"", ",", "]">>,
     <<" ", "[", " ", "\"", "a", "\"", " ", "]", "\n">>,
     <<"[", "\"", "a", "\\", "\"", "b", "\"", "]">>,
     <<"[", "\"", "a", "\"", "]", " ", "x">>}

\* What the user types or pastes into proofHexInput.
ProofHexTexts ==
    {<<>>,
     <<"a", "b">>,
     <<"A", "B">>,
     <<"a", "B">>,
     <<"0", "x", "a", "b">>,
     <<"0", "x">>,
     <<"0", "X", "a", "b">>,
     <<"a", "b", "c">>,
     <<"0", "x", "a", "b", "c">>,
     <<"g", "0">>,
     <<"a", "b", " ", "c", "d">>,
     <<" ", "a", "b">>,
     <<"a", "b", "\n">>,
     <<"0", "x", " ", "a", "b">>,
     <<" ", "0", "x", "a", "b">>,
     <<"0", "x", "0", "x", "a", "b">>,
     <<"0", "0", "a", "b">>,
     <<"a", " ", "b">>,
     <<"0", " ", "x", "a", "b">>,
     <<" ", " ">>,
     <<"0", "x", "0">>}

(***************************************************************************)
(* generateFieldElement: the rejection sampler.                            *)
(*                                                                         *)
(* A bigint is held as the sequence of its 32 bytes, most significant      *)
(* first; a decimal string as the sequence of its digits, most significant *)
(* first.                                                                  *)
(***************************************************************************)
\* The digits of 21888242871839275222246405745257275088548364400416034343698204186575808495617n
MODULUS ==
    <<2, 1, 8, 8, 8, 2, 4, 2, 8, 7, 1, 8, 3, 9, 2, 7, 5, 2, 2, 2>> \o
    <<2, 4, 6, 4, 0, 5, 7, 4, 5, 2, 5, 7, 2, 7, 5, 0, 8, 8, 5, 4>> \o
    <<8, 3, 6, 4, 4, 0, 0, 4, 1, 6, 0, 3, 4, 3, 4, 3, 6, 9, 8, 2>> \o
    <<0, 4, 1, 8, 6, 5, 7, 5, 8, 0, 8, 4, 9, 5, 6, 1, 7>>

\* bytes.length
NBytes == 32

\* digits (least significant first, in the given base) of n * m + c, where
\* ds[k..] are the digits of n
RECURSIVE MulAdd(_, _, _, _, _)
MulAdd(ds, k, m, c, base) ==
    IF k > Len(ds)
    THEN IF c = 0 THEN <<>> ELSE <<c % base>> \o MulAdd(ds, k, m, c \div base, base)
    ELSE LET v == ds[k] * m + c
         IN <<v % base>> \o MulAdd(ds, k + 1, m, v \div base, base)

\* digits in base `to` (least significant first) of the number whose digits
\* in base `from` (most significant first) are ds[k..], acc being the value
\* of the digits before k
RECURSIVE Convert(_, _, _, _, _)
Convert(ds, k, acc, from, to) ==
    IF k > Len(ds)
    THEN acc
    ELSE Convert(ds, k + 1, MulAdd(acc, 1, from, ds[k], to), from, to)

\* A bigint as 16-bit limbs and a decimal string as 4-digit limbs, most
\* significant first.
Limbs16(x) == [k \in 1..(NBytes \div 2) |-> x[2 * k - 1] * 256 + x[2 * k]]

Limbs4(text) ==
    LET n == Len(text)
        m == (n + 3) \div 4
        pad == 4 * m - n
        digit(q) == IF q <= pad THEN 0 ELSE text[q - pad]
    IN [j \in 1..m |-> digit(4 * j - 3) * 1000 + digit(4 * j - 2) * 100
                         + digit(4 * j - 1) * 10 + digit(4 * j)]

\* x.toString() of a bigint x >= 0
toString(x) ==
    LET ls == Convert(Limbs16(x), 1, <<>>, 65536, 10000)
        n == Len(ls)
        digit(q) == (ls[n - ((q - 1) \div 4)] \div <<1000, 100, 10, 1>>[((q - 1) % 4) + 1]) % 10
        nonzero == {q \in 1..(4 * n) : digit(q) # 0}
    IN IF nonzero = {}
       THEN <<0>>
       ELSE [k \in 1..(4 * n - Min(nonzero) + 1) |-> digit(k + Min(nonzero) - 1)]

\* BigInt(text) of a decimal string, as NBytes bytes
BigInt(text) ==
    LET ls == Convert(Limbs4(text), 1, <<>>, 10000, 65536)
        limb(i) == IF i <= Len(ls) THEN ls[i] ELSE 0
        byte(i) == IF i % 2 = 0
                   THEN limb((i \div 2) + 1) % 256
                   ELSE limb((i \div 2) + 1) \div 256
    IN [k \in 1..NBytes |-> byte(NBytes - k)]

ModulusBytes == BigInt(MODULUS)

\* Mutant of maskTopBits: only the top bit is cleared (bytes[0] &= 0x7f).
maskTopBit(bytes) == [bytes EXCEPT ![1] = bytes[1] % 128]

\* bytes[0] &= 0x3f
maskTopBits(bytes) == [bytes EXCEPT ![1] = bytes[1] % 64]

\* for (i...) x = (x << 8n) | BigInt(bytes[i])
bigEndian(bytes) == bytes

\* Mutant of lessThan: x <= y.
lessOrEqual(x, y) ==
    x = y \/ \E k \in 1..NBytes :
                x[k] < y[k] /\ \A h \in 1..(k - 1) : x[h] = y[h]

\* x < y for bigints of NBytes bytes
lessThan(x, y) ==
    \E k \in 1..NBytes : x[k] < y[k] /\ \A h \in 1..(k - 1) : x[h] = y[h]

\* x - y for bigints x >= y: the bytes from position k on, given the borrow
\* into position k (computed from the least significant byte).
RECURSIVE Borrow(_, _, _)
Borrow(x, y, k) ==
    IF k > NBytes THEN 0
    ELSE IF x[k] - y[k] - Borrow(x, y, k + 1) < 0 THEN 1 ELSE 0

minus(x, y) ==
    [k \in 1..NBytes |-> (x[k] - y[k] - Borrow(x, y, k + 1) + 256) % 256]

NotDrawn == [accepted |-> FALSE]

\* Mutant of loopOutcome: a candidate >= MODULUS is reduced modulo MODULUS.
loopOutcomeReducing(x) ==
    IF lessThan(x, ModulusBytes)
    THEN [accepted |-> TRUE, rand |-> x, returned |-> toString(x)]
    ELSE [accepted |-> TRUE, rand |-> minus(x, ModulusBytes),
          returned |-> toString(minus(x, ModulusBytes))]

\* Mutant of loopOutcome: the candidate 0 is not accepted.
loopOutcomeRejectingZero(x) ==
    IF lessThan(x, ModulusBytes) /\ x # [k \in 1..NBytes |-> 0]
    THEN [accepted |-> TRUE, rand |-> x, returned |-> toString(x)]
    ELSE NotDrawn

\* if (x < MODULUS) { rand = x; break; } ... return rand.toString()
loopOutcome(x) ==
    IF lessThan(x, ModulusBytes)
    THEN [accepted |-> TRUE, rand |-> x, returned |-> toString(x)]
    ELSE NotDrawn

\* What crypto.getRandomValues may write: a first byte and the 31 bytes
\* after it, around the modulus and at the ends of the range.
FirstBytes == {0, 1, 47, 48, 49, 63, 64, 112, 113, 128, 176, 192, 240, 255}

TailOf(bytes) == [k \in 1..(NBytes - 1) |-> bytes[k + 1]]

Tails ==
    {TailOf(ModulusBytes),
     [TailOf(ModulusBytes) EXCEPT ![NBytes - 1] = 0],
     [TailOf(ModulusBytes) EXCEPT ![NBytes - 1] = 2],
     [k \in 1..(NBytes - 1) |-> 0],
     [k \in 1..(NBytes - 1) |-> 255]}

RandomValues == {<<b>> \o t : b \in FirstBytes, t \in Tails}

SamplerInit ==
    /\ raw = <<>>
    /\ rand = NotDrawn
    /\ draws = 0

\* One iteration of the loop of generateFieldElement, with the bytes drawn.
\* draws counts the iterations up to MaxDraws; the loop itself has no bound.
generateFieldElementStep(randomValues) ==
    /\ ~rand.accepted
    /\ raw' = randomValues
    /\ draws' = IF draws < MaxDraws THEN draws + 1 ELSE draws
    /\ rand' = loopOutcome(bigEndian(maskTopBits(randomValues)))

(***************************************************************************)
(* Specifications.                                                         *)
(***************************************************************************)
\* The game: the state after construction and the handlers.
Init ==
    /\ GameInit
    /\ oauth_state = null
    /\ backendUrl = TRUE
    /\ callback = Idle
    /\ pendingProof = nullItem
    /\ clientId = TRUE
    /\ effects = <<>>
    /\ githubCallback = Idle
    /\ SamplerInit
    /\ ExportInit
    /\ HistoryInit
    /\ vgrid = ChallengeGrid
    /\ vout = [isValid |-> NotApplied, checkSolution |-> NotApplied]

\* The handlers that write the game's own fields, with the prover calls of
\* the runs in flight.
NextGame ==
    \/ /\ \E cell \in FreeCells \cup ReadOnlyCells, value \in CellInputs :
             handleCellInput(cell[1], cell[2], value)
       /\ UNCHANGED <<oauthVars, validatorVars, samplerVars, exportVars, historyVars>>
    \/ updateTimer
       /\ UNCHANGED <<oauthVars, validatorVars, samplerVars, exportVars, historyVars>>
    \/ checkSolution
       /\ UNCHANGED <<oauthVars, validatorVars, samplerVars, exportVars, historyVars>>
    \/ generateProof
       /\ UNCHANGED <<oauthVars, validatorVars, samplerVars, exportVars, historyVars>>
    \/ /\ \E run \in BagToSet(runs) : executeSettles(run)
       /\ UNCHANGED <<oauthVars, validatorVars, samplerVars, exportVars, historyVars>>
    \/ /\ \E run \in BagToSet(runs) : generateProofSettles(run)
       /\ UNCHANGED <<oauthVars, validatorVars, samplerVars, exportVars, historyVars>>
    \/ /\ \E run \in BagToSet(runs) : verifyProofSettles(run)
       /\ UNCHANGED <<oauthVars, validatorVars, samplerVars, exportVars, historyVars>>
    \/ /\ \E url \in GistUrlInputs : submitGistUrl(url)
       /\ UNCHANGED <<oauthVars, validatorVars, samplerVars, exportVars, historyVars>>
    \/ /\ \E confirmed \in BOOLEAN : reset(confirmed)
       /\ UNCHANGED <<oauthVars, validatorVars, samplerVars, exportVars, historyVars>>
    \/ giveHint
       /\ UNCHANGED <<oauthVars, validatorVars, samplerVars, exportVars, historyVars>>

SpecGame == Init /\ [][NextGame]_vars

\* The game with the two copy buttons and the clipboard.
NextExport ==
    \/ /\ \E cell \in FreeCells \cup ReadOnlyCells, value \in CellInputs :
             handleCellInput(cell[1], cell[2], value)
       /\ UNCHANGED <<oauthVars, validatorVars, samplerVars, exportVars, historyVars>>
    \/ updateTimer
       /\ UNCHANGED <<oauthVars, validatorVars, samplerVars, exportVars, historyVars>>
    \/ checkSolution
       /\ UNCHANGED <<oauthVars, validatorVars, samplerVars, exportVars, historyVars>>
    \/ generateProof
       /\ UNCHANGED <<oauthVars, validatorVars, samplerVars, exportVars, historyVars>>
    \/ /\ \E run \in BagToSet(runs) : executeSettles(run)
       /\ UNCHANGED <<oauthVars, validatorVars, samplerVars, exportVars, historyVars>>
    \/ /\ \E run \in BagToSet(runs) : generateProofSettles(run)
       /\ UNCHANGED <<oauthVars, validatorVars, samplerVars, exportVars, historyVars>>
    \/ /\ \E run \in BagToSet(runs) : verifyProofSettles(run)
       /\ UNCHANGED <<oauthVars, validatorVars, samplerVars, exportVars, historyVars>>
    \/ /\ \E url \in GistUrlInputs : submitGistUrl(url)
       /\ UNCHANGED <<oauthVars, validatorVars, samplerVars, exportVars, historyVars>>
    \/ /\ \E confirmed \in BOOLEAN : reset(confirmed)
       /\ UNCHANGED <<oauthVars, validatorVars, samplerVars, exportVars, historyVars>>
    \/ giveHint
       /\ UNCHANGED <<oauthVars, validatorVars, samplerVars, exportVars, historyVars>>
    \/ copyFieldElement
       /\ UNCHANGED <<oauthVars, validatorVars, samplerVars, historyVars>>
    \/ copyProofData
       /\ UNCHANGED <<oauthVars, validatorVars, samplerVars, historyVars>>
    \/ /\ \E written \in BOOLEAN : clipboardSettles(written)
       /\ UNCHANGED <<oauthVars, validatorVars, samplerVars, historyVars>>

SpecExport == Init /\ [][NextExport]_vars

\* The game with uploadToGist and the two awaits of its request.
NextUpload ==
    \/ /\ \E cell \in FreeCells \cup ReadOnlyCells, value \in CellInputs :
             handleCellInput(cell[1], cell[2], value)
       /\ UNCHANGED <<oauthVars, validatorVars, samplerVars, exportVars, historyVars>>
    \/ updateTimer
       /\ UNCHANGED <<oauthVars, validatorVars, samplerVars, exportVars, historyVars>>
    \/ checkSolution
       /\ UNCHANGED <<oauthVars, validatorVars, samplerVars, exportVars, historyVars>>
    \/ generateProof
       /\ UNCHANGED <<oauthVars, validatorVars, samplerVars, exportVars, historyVars>>
    \/ /\ \E run \in BagToSet(runs) : executeSettles(run)
       /\ UNCHANGED <<oauthVars, validatorVars, samplerVars, exportVars, historyVars>>
    \/ /\ \E run \in BagToSet(runs) : generateProofSettles(run)
       /\ UNCHANGED <<oauthVars, validatorVars, samplerVars, exportVars, historyVars>>
    \/ /\ \E run \in BagToSet(runs) : verifyProofSettles(run)
       /\ UNCHANGED <<oauthVars, validatorVars, samplerVars, exportVars, historyVars>>
    \/ /\ \E url \in GistUrlInputs : submitGistUrl(url)
       /\ UNCHANGED <<oauthVars, validatorVars, samplerVars, exportVars, historyVars>>
    \/ /\ \E confirmed \in BOOLEAN : reset(confirmed)
       /\ UNCHANGED <<oauthVars, validatorVars, samplerVars, exportVars, historyVars>>
    \/ giveHint
       /\ UNCHANGED <<oauthVars, validatorVars, samplerVars, exportVars, historyVars>>
    \/ /\ \E token \in GithubTokens : uploadToGist(token)
       /\ UNCHANGED <<oauthVars, validatorVars, samplerVars, historyVars>>
    \/ /\ \E response \in UploadResponses : uploadSettles(response)
       /\ UNCHANGED <<oauthVars, validatorVars, samplerVars, historyVars>>
    \/ /\ \E awaited \in {"json", "errorJson"}, body \in UploadBodies :
             uploadJsonSettles(awaited, body)
       /\ UNCHANGED <<oauthVars, validatorVars, samplerVars, historyVars>>

SpecUpload == Init /\ [][NextUpload]_vars

\* The game with one generateProof run followed from its start to its end.
\* The runs in flight are a bag, so two runs that await the same call with
\* the same data are not told apart there; observed holds the record of the
\* run that is followed, and NoRun while none is.  Any run may be the one
\* followed: the choice is made when it starts.
\*
\* The record of the followed run after its prover call settled; NoRun when
\* the run ended.
RunAfter(run) ==
    IF BagCardinality(runs') < BagCardinality(runs)
    THEN NoRun
    ELSE CHOOSE next \in BagToSet(runs' (-) (runs (-) SetToBag({run}))) : TRUE

\* The run that starts in this step is followed, or is not.
ObserveStart ==
    \/ observed' = observed
    \/ /\ observed = NoRun
       /\ BagCardinality(runs') = BagCardinality(runs) + 1
       /\ observed' = CHOOSE started \in BagToSet(runs' (-) runs) : TRUE

\* The call that settles in this step is the followed run's, or another
\* run's (one with a different record, or with the same record when the bag
\* holds it more than once).
ObserveSettle(run) ==
    \/ /\ observed = run
       /\ observed' = RunAfter(run)
    \/ /\ observed # run \/ CopiesIn(run, runs) > 1
       /\ observed' = observed

NextObserved ==
    \/ /\ \E cell \in FreeCells \cup ReadOnlyCells, value \in CellInputs :
             handleCellInput(cell[1], cell[2], value)
       /\ UNCHANGED <<oauthVars, validatorVars, samplerVars, exportVars, historyVars>>
    \/ updateTimer
       /\ UNCHANGED <<oauthVars, validatorVars, samplerVars, exportVars, historyVars>>
    \/ checkSolution
       /\ UNCHANGED <<oauthVars, validatorVars, samplerVars, exportVars, historyVars>>
    \/ /\ generateProof
       /\ ObserveStart
       /\ UNCHANGED <<oauthVars, validatorVars, samplerVars, exportVars, userEvents>>
    \/ /\ \E run \in BagToSet(runs) : executeSettles(run) /\ ObserveSettle(run)
       /\ UNCHANGED <<oauthVars, validatorVars, samplerVars, exportVars, userEvents>>
    \/ /\ \E run \in BagToSet(runs) : generateProofSettles(run) /\ ObserveSettle(run)
       /\ UNCHANGED <<oauthVars, validatorVars, samplerVars, exportVars, userEvents>>
    \/ /\ \E run \in BagToSet(runs) : verifyProofSettles(run) /\ ObserveSettle(run)
       /\ UNCHANGED <<oauthVars, validatorVars, samplerVars, exportVars, userEvents>>
    \/ /\ \E url \in GistUrlInputs : submitGistUrl(url)
       /\ UNCHANGED <<oauthVars, validatorVars, samplerVars, exportVars, historyVars>>
    \/ /\ \E confirmed \in BOOLEAN : reset(confirmed)
       /\ UNCHANGED <<oauthVars, validatorVars, samplerVars, exportVars, historyVars>>
    \/ giveHint
       /\ UNCHANGED <<oauthVars, validatorVars, samplerVars, exportVars, historyVars>>

\* The prover call the followed run awaits resolves or rejects.
ObservedCallSettles ==
    /\ observed # NoRun
    /\ \/ executeSettles(observed)
       \/ generateProofSettles(observed)
       \/ verifyProofSettles(observed)
    /\ observed' = RunAfter(observed)
    /\ UNCHANGED <<oauthVars, validatorVars, samplerVars, exportVars, userEvents>>

\* The game with a prover that leaves no call of the followed run unsettled
\* for ever.  Whichever run is followed, its calls settle: that is the
\* proviso "each prover call eventually resolves or rejects" for that run.
SpecObservedRun == Init /\ [][NextObserved]_vars /\ WF_vars(ObservedCallSettles)

\* The OAuth flow over sessionStorage.  It starts on the page as constructed,
\* or on a page whose generateProof run stored a verified proof: the grid
\* solved and accepted by checkSolution, the timer stopped by it at the
\* elapsed time that became the proof time, the last status that of the run,
\* and the trigger enabled again.
\* A proof a session may hold when the flow is started.
StoredArtifacts == {[proof |-> <<171>>, publicInputs |-> <<"11">>]}

InitOAuth ==
    /\ OAuthInit
    /\ fieldElement = "11"
    /\ gistUrl = null
    /\ noir = TRUE
    /\ backend = TRUE
    /\ runs = EmptyBag
    /\ \/ /\ proof = nullProof
          /\ proofTime = nullTime
          /\ grid = ChallengeGrid
          /\ sinceStart = 0
          /\ timerInterval = TRUE
          /\ elapsedTime = 0
          /\ generateProofBtnDisabled = TRUE
          /\ status = Status("none", <<>>)
          /\ validated = FALSE
       \/ /\ proof \in StoredArtifacts
          /\ proofTime \in 0..MaxElapsed
          /\ grid = SolvedGrid
          /\ sinceStart = proofTime
          /\ timerInterval = FALSE
          /\ elapsedTime = proofTime
          /\ generateProofBtnDisabled = FALSE
          /\ status = Status("success",
                         <<"Proof generated and verified successfully!">>)
          /\ validated = TRUE
    /\ vgrid = ChallengeGrid
    /\ vout = [isValid |-> NotApplied, checkSolution |-> NotApplied]
    /\ SamplerInit
    /\ ExportInit
    /\ HistoryInit

NextOAuth ==
    \/ postToGitHub
       /\ UNCHANGED <<validatorVars, samplerVars, exportVars, historyVars>>
    \/ /\ \E code \in CallbackCodes, state \in CallbackStates :
             handleGitHubCallback(code, state)
       /\ UNCHANGED <<validatorVars, samplerVars, exportVars, historyVars>>
    \/ handleGitHubCallbackWithoutParams
       /\ UNCHANGED <<validatorVars, samplerVars, exportVars, historyVars>>
    \/ /\ \E response \in ExchangeResponses : handleCallbackSettles(response)
       /\ UNCHANGED <<validatorVars, samplerVars, exportVars, historyVars>>
    \/ /\ \E body \in ExchangeBodies : handleCallbackJsonSettles(body)
       /\ UNCHANGED <<validatorVars, samplerVars, exportVars, historyVars>>
    \/ /\ \E response \in GistResponses : createGistSettles(response)
       /\ UNCHANGED <<validatorVars, samplerVars, exportVars, historyVars>>
    \/ /\ \E body \in GistBodies : createGistJsonSettles(body)
       /\ UNCHANGED <<validatorVars, samplerVars, exportVars, historyVars>>

SpecOAuth == InitOAuth /\ [][NextOAuth]_vars

\* The validator functions: a test grid is drawn, then they are applied to it.
InitValidator ==
    /\ ValidatorInit
    /\ grid = ChallengeGrid
    /\ sinceStart = 0
    /\ timerInterval = TRUE
    /\ elapsedTime = 0
    /\ fieldElement = "11"
    /\ proof = nullProof
    /\ proofTime = nullTime
    /\ gistUrl = null
    /\ noir = TRUE
    /\ backend = TRUE
    /\ generateProofBtnDisabled = TRUE
    /\ status = Status("none", <<>>)
    /\ runs = EmptyBag
    /\ validated = FALSE
    /\ oauth_state = null
    /\ backendUrl = TRUE
    /\ callback = Idle
    /\ pendingProof = nullItem
    /\ clientId = TRUE
    /\ effects = <<>>
    /\ githubCallback = Idle
    /\ SamplerInit
    /\ ExportInit
    /\ HistoryInit

NextValidator ==
    \/ applyIsValid
       /\ UNCHANGED <<gameVars, oauthVars, samplerVars, exportVars, historyVars>>
    \/ applyCheckSolution
       /\ UNCHANGED <<gameVars, oauthVars, samplerVars, exportVars, historyVars>>

SpecValidator == InitValidator /\ [][NextValidator]_vars

\* getConflicts: a grid and a cell and value are drawn, then it is applied.
ConflictPositions == {<<0, 2>>, <<0, 3>>, <<1, 1>>, <<2, 0>>, <<4, 4>>, <<8, 6>>}

\* The challenge, alone and with one more cell filled, and the solved grid.
ConflictGrids ==
    {ChallengeGrid, SolvedGrid}
        \cup {SetCell(ChallengeGrid, p[1], p[2], v) : p \in ConflictPositions, v \in 1..9}

applyGetConflicts(row, col, value) ==
    /\ ~vout.applied
    /\ vout' = [applied |-> TRUE, row |-> row, col |-> col, value |-> value,
                result |-> getConflicts(vgrid, row, col, value),
                labels |-> gameGetConflicts(vgrid, row, col, value)]
    /\ UNCHANGED vgrid

InitConflicts ==
    /\ vgrid \in ConflictGrids
    /\ vout = NotApplied
    /\ SamplerInit
    /\ ExportInit
    /\ HistoryInit
    /\ grid = ChallengeGrid
    /\ sinceStart = 0
    /\ timerInterval = TRUE
    /\ elapsedTime = 0
    /\ fieldElement = "11"
    /\ proof = nullProof
    /\ proofTime = nullTime
    /\ gistUrl = null
    /\ noir = TRUE
    /\ backend = TRUE
    /\ generateProofBtnDisabled = TRUE
    /\ status = Status("none", <<>>)
    /\ runs = EmptyBag
    /\ validated = FALSE
    /\ oauth_state = null
    /\ backendUrl = TRUE
    /\ callback = Idle
    /\ pendingProof = nullItem
    /\ clientId = TRUE
    /\ effects = <<>>
    /\ githubCallback = Idle

NextConflicts ==
    /\ \E row \in Idx, col \in Idx, value \in 0..9 : applyGetConflicts(row, col, value)
    /\ UNCHANGED <<gameVars, oauthVars, samplerVars, exportVars, historyVars>>

SpecConflicts == InitConflicts /\ [][NextConflicts]_vars

\* The game as constructed, the OAuth flow not started, the sampler and the
\* validator not applied: the parts a specification leaves alone.
GameUntouched ==
    /\ grid = ChallengeGrid
    /\ sinceStart = 0
    /\ timerInterval = TRUE
    /\ elapsedTime = 0
    /\ fieldElement = "11"
    /\ proof = nullProof
    /\ proofTime = nullTime
    /\ gistUrl = null
    /\ noir = TRUE
    /\ backend = TRUE
    /\ generateProofBtnDisabled = TRUE
    /\ status = Status("none", <<>>)
    /\ runs = EmptyBag
    /\ validated = FALSE

OAuthUntouched ==
    /\ oauth_state = null
    /\ backendUrl = TRUE
    /\ callback = Idle
    /\ pendingProof = nullItem
    /\ clientId = TRUE
    /\ effects = <<>>
    /\ githubCallback = Idle

\* matchesChallenge: a candidate is drawn, then it is compared with a challenge.
MatchCandidates ==
    {SolvedGrid, ChallengeGrid}
        \cup {SetCell(SolvedGrid, i, j, v) : i \in Idx, j \in Idx, v \in 0..9}

MatchChallenges ==
    {ChallengeGrid, SolvedGrid, [i \in Idx |-> [j \in Idx |-> 0]],
     SetCell(ChallengeGrid, 0, 2, 4), SetCell(ChallengeGrid, 0, 2, 1)}

applyMatchesChallenge(challenge) ==
    /\ ~vout.applied
    /\ vout' = [applied |-> TRUE, challenge |-> challenge,
                result |-> matchesChallenge(vgrid, challenge)]
    /\ UNCHANGED vgrid

InitMatches ==
    /\ vgrid \in MatchCandidates
    /\ vout = NotApplied
    /\ GameUntouched
    /\ OAuthUntouched
    /\ SamplerInit
    /\ ExportInit
    /\ HistoryInit

NextMatches ==
    /\ \E challenge \in MatchChallenges : applyMatchesChallenge(challenge)
    /\ UNCHANGED <<gameVars, oauthVars, samplerVars, exportVars, historyVars>>

SpecMatches == InitMatches /\ [][NextMatches]_vars

\* getBox and getConflicts applied to grids: a grid whose cell (i, j) holds
\* the number 9*i + j, so that the cells returned can be told apart, the
\* challenge and the solved grid.
LabelGrid == [i \in Idx |-> [j \in Idx |-> 9 * i + j]]

BoxGrids == {LabelGrid, ChallengeGrid, SolvedGrid}

applyGetBox(boxNum) ==
    /\ ~vout.applied
    /\ vout' = [applied |-> TRUE, boxNum |-> boxNum, box |-> getBox(vgrid, boxNum)]
    /\ UNCHANGED vgrid

InitBoxes ==
    /\ vgrid \in BoxGrids
    /\ vout = NotApplied
    /\ GameUntouched
    /\ OAuthUntouched
    /\ SamplerInit
    /\ ExportInit
    /\ HistoryInit

NextBoxes ==
    \/ /\ \E boxNum \in 0..8 : applyGetBox(boxNum)
       /\ UNCHANGED <<gameVars, oauthVars, samplerVars, exportVars, historyVars>>
    \/ /\ \E row \in Idx, col \in Idx, value \in 0..9 : applyGetConflicts(row, col, value)
       /\ UNCHANGED <<gameVars, oauthVars, samplerVars, exportVars, historyVars>>

SpecBoxes == InitBoxes /\ [][NextBoxes]_vars

\* External verification: the session as constructed or holding a proof, and
\* what the user pastes, artifacts as exported among it.
ArtifactProofs == {<<>>, <<0>>, <<10, 171>>, <<255, 16>>, <<1, 2, 3>>}
ArtifactPublicInputs ==
    {<<>>, << <<"0", "x", "0", "a">> >>, << <<"a">>, <<"b">> >>,
     << <<"a", "\"", "b">> >>, << <<"\\">>, <<>> >>}

\* A session whose generateProof run stored a verified proof.
ProvenSession ==
    /\ grid = SolvedGrid
    /\ sinceStart = 0
    /\ timerInterval = FALSE
    /\ elapsedTime = 0
    /\ fieldElement = "11"
    /\ proof = [proof |-> <<171>>, publicInputs |-> <<"11">>]
    /\ proofTime = 0
    /\ gistUrl = null
    /\ noir = TRUE
    /\ backend = TRUE
    /\ generateProofBtnDisabled = FALSE
    /\ status = Status("success", <<"Proof generated and verified successfully!">>)
    /\ runs = EmptyBag
    /\ validated = TRUE

InitVerify ==
    /\ \/ GameInit /\ grid = ChallengeGrid /\ fieldElement = "11" /\ noir = backend
       \/ ProvenSession
    /\ OAuthUntouched
    /\ vgrid = ChallengeGrid
    /\ vout = NotApplied
    /\ SamplerInit
    /\ ExportInit
    /\ HistoryInit

NextVerify ==
    \/ /\ \E publicInputsInput \in PublicInputsTexts
                 \cup {stringifyStrings(p, 1) : p \in ArtifactPublicInputs},
             proofHexInput \in ProofHexTexts \cup {proofToHex(b) : b \in ArtifactProofs} :
             performVerification(publicInputsInput, proofHexInput)
       /\ UNCHANGED <<oauthVars, validatorVars, samplerVars, historyVars>>
    \/ /\ \E response \in VerifyResponses : externalVerifySettles(response)
       /\ UNCHANGED <<oauthVars, validatorVars, samplerVars, historyVars>>
    \/ copyProofData
       /\ UNCHANGED <<oauthVars, validatorVars, samplerVars, historyVars>>
    \/ /\ \E written \in BOOLEAN : clipboardSettles(written)
       /\ UNCHANGED <<oauthVars, validatorVars, samplerVars, historyVars>>

SpecVerify == InitVerify /\ [][NextVerify]_vars

\* The page: every handler setupEventListeners and renderGrid register, the
\* timer, and every promise a handler awaits.  NextGame, NextExport,
\* NextUpload and NextVerify are its restrictions to the handlers of one
\* concern.
Next ==
    \/ /\ \E cell \in FreeCells \cup ReadOnlyCells, value \in CellInputs :
             handleCellInput(cell[1], cell[2], value)
       /\ UNCHANGED <<oauthVars, validatorVars, samplerVars, exportVars, historyVars>>
    \/ updateTimer
       /\ UNCHANGED <<oauthVars, validatorVars, samplerVars, exportVars, historyVars>>
    \/ checkSolution
       /\ UNCHANGED <<oauthVars, validatorVars, samplerVars, exportVars, historyVars>>
    \/ generateProof
       /\ UNCHANGED <<oauthVars, validatorVars, samplerVars, exportVars, historyVars>>
    \/ /\ \E run \in BagToSet(runs) : executeSettles(run)
       /\ UNCHANGED <<oauthVars, validatorVars, samplerVars, exportVars, historyVars>>
    \/ /\ \E run \in BagToSet(runs) : generateProofSettles(run)
       /\ UNCHANGED <<oauthVars, validatorVars, samplerVars, exportVars, historyVars>>
    \/ /\ \E run \in BagToSet(runs) : verifyProofSettles(run)
       /\ UNCHANGED <<oauthVars, validatorVars, samplerVars, exportVars, historyVars>>
    \/ /\ \E url \in GistUrlInputs : submitGistUrl(url)
       /\ UNCHANGED <<oauthVars, validatorVars, samplerVars, exportVars, historyVars>>
    \/ /\ \E confirmed \in BOOLEAN : reset(confirmed)
       /\ UNCHANGED <<oauthVars, validatorVars, samplerVars, exportVars, historyVars>>
    \/ giveHint
       /\ UNCHANGED <<oauthVars, validatorVars, samplerVars, exportVars, historyVars>>
    \/ copyFieldElement
       /\ UNCHANGED <<oauthVars, validatorVars, samplerVars, historyVars>>
    \/ copyProofData
       /\ UNCHANGED <<oauthVars, validatorVars, samplerVars, historyVars>>
    \/ /\ \E written \in BOOLEAN : clipboardSettles(written)
       /\ UNCHANGED <<oauthVars, validatorVars, samplerVars, historyVars>>
    \/ /\ \E token \in GithubTokens : uploadToGist(token)
       /\ UNCHANGED <<oauthVars, validatorVars, samplerVars, historyVars>>
    \/ /\ \E response \in UploadResponses : uploadSettles(response)
       /\ UNCHANGED <<oauthVars, validatorVars, samplerVars, historyVars>>
    \/ /\ \E awaited \in {"json", "errorJson"}, body \in UploadBodies :
             uploadJsonSettles(awaited, body)
       /\ UNCHANGED <<oauthVars, validatorVars, samplerVars, historyVars>>
    \/ /\ \E publicInputsInput \in PublicInputsTexts
                 \cup {stringifyStrings(p, 1) : p \in ArtifactPublicInputs},
             proofHexInput \in ProofHexTexts \cup {proofToHex(b) : b \in ArtifactProofs} :
             performVerification(publicInputsInput, proofHexInput)
       /\ UNCHANGED <<oauthVars, validatorVars, samplerVars, historyVars>>
    \/ /\ \E response \in VerifyResponses : externalVerifySettles(response)
       /\ UNCHANGED <<oauthVars, validatorVars, samplerVars, historyVars>>

Spec == Init /\ [][Next]_vars

\* The page within a bounded number of user events.  The states Spec reaches
\* are too many to enumerate, so the page is explored through every
\* behaviour of at most MaxUserEvents user events, with every timer tick and
\* every settlement between them, started on the page as constructed or on
\* a session that holds a verified proof.
MaxUserEvents == 6

\* What the user submits to the external verifier here: the public inputs
\* and the proof as copyProofData writes them for the proof of
\* ProvenSession, or text that is no JSON array and no hex.
PagePublicInputsTexts == {stringifyStrings(<< <<"1", "1">> >>, 1), <<"{", "}">>}
PageProofHexTexts == {proofToHex(<<171>>), <<>>}

InitPage ==
    /\ GameInit \/ ProvenSession
    /\ OAuthUntouched
    /\ vgrid = ChallengeGrid
    /\ vout = NotApplied
    /\ SamplerInit
    /\ ExportInit
    /\ HistoryInit

\* One more user event is handled.
UserEvent ==
    /\ userEvents < MaxUserEvents
    /\ userEvents' = userEvents + 1
    /\ UNCHANGED observed

NextPage ==
    \/ /\ \E cell \in FreeCells \cup ReadOnlyCells, value \in CellInputs :
             handleCellInput(cell[1], cell[2], value)
       /\ UserEvent
       /\ UNCHANGED <<oauthVars, validatorVars, samplerVars, exportVars>>
    \/ updateTimer
       /\ UNCHANGED <<oauthVars, validatorVars, samplerVars, exportVars, historyVars>>
    \/ checkSolution /\ UserEvent
       /\ UNCHANGED <<oauthVars, validatorVars, samplerVars, exportVars>>
    \/ generateProof /\ UserEvent
       /\ UNCHANGED <<oauthVars, validatorVars, samplerVars, exportVars>>
    \/ /\ \E run \in BagToSet(runs) : executeSettles(run)
       /\ UNCHANGED <<oauthVars, validatorVars, samplerVars, exportVars, historyVars>>
    \/ /\ \E run \in BagToSet(runs) : generateProofSettles(run)
       /\ UNCHANGED <<oauthVars, validatorVars, samplerVars, exportVars, historyVars>>
    \/ /\ \E run \in BagToSet(runs) : verifyProofSettles(run)
       /\ UNCHANGED <<oauthVars, validatorVars, samplerVars, exportVars, historyVars>>
    \/ /\ \E url \in GistUrlInputs : submitGistUrl(url)
       /\ UserEvent
       /\ UNCHANGED <<oauthVars, validatorVars, samplerVars, exportVars>>
    \/ /\ \E confirmed \in BOOLEAN : reset(confirmed)
       /\ UserEvent
       /\ UNCHANGED <<oauthVars, validatorVars, samplerVars, exportVars>>
    \/ giveHint /\ UserEvent
       /\ UNCHANGED <<oauthVars, validatorVars, samplerVars, exportVars>>
    \/ copyFieldElement /\ UserEvent
       /\ UNCHANGED <<oauthVars, validatorVars, samplerVars>>
    \/ copyProofData /\ UserEvent
       /\ UNCHANGED <<oauthVars, validatorVars, samplerVars>>
    \/ /\ \E written \in BOOLEAN : clipboardSettles(written)
       /\ UNCHANGED <<oauthVars, validatorVars, samplerVars, historyVars>>
    \/ /\ \E token \in GithubTokens : uploadToGist(token)
       /\ UserEvent
       /\ UNCHANGED <<oauthVars, validatorVars, samplerVars>>
    \/ /\ \E response \in UploadResponses : uploadSettles(response)
       /\ UNCHANGED <<oauthVars, validatorVars, samplerVars, historyVars>>
    \/ /\ \E awaited \in {"json", "errorJson"}, body \in UploadBodies :
             uploadJsonSettles(awaited, body)
       /\ UNCHANGED <<oauthVars, validatorVars, samplerVars, historyVars>>
    \/ /\ \E publicInputsInput \in PagePublicInputsTexts,
             proofHexInput \in PageProofHexTexts :
             performVerification(publicInputsInput, proofHexInput)
       /\ UserEvent
       /\ UNCHANGED <<oauthVars, validatorVars, samplerVars>>
    \/ /\ \E response \in VerifyResponses : externalVerifySettles(response)
       /\ UNCHANGED <<oauthVars, validatorVars, samplerVars, historyVars>>

SpecPage == InitPage /\ [][NextPage]_vars

\* The sampler: the loop of generateFieldElement over the bytes drawn.
InitSampler ==
    /\ SamplerInit
    /\ ExportInit
    /\ HistoryInit
    /\ grid = ChallengeGrid
    /\ sinceStart = 0
    /\ timerInterval = TRUE
    /\ elapsedTime = 0
    /\ fieldElement = "11"
    /\ proof = nullProof
    /\ proofTime = nullTime
    /\ gistUrl = null
    /\ noir = TRUE
    /\ backend = TRUE
    /\ generateProofBtnDisabled = TRUE
    /\ status = Status("none", <<>>)
    /\ runs = EmptyBag
    /\ validated = FALSE
    /\ oauth_state = null
    /\ backendUrl = TRUE
    /\ callback = Idle
    /\ pendingProof = nullItem
    /\ clientId = TRUE
    /\ effects = <<>>
    /\ githubCallback = Idle
    /\ vgrid = ChallengeGrid
    /\ vout = [isValid |-> NotApplied, checkSolution |-> NotApplied]

NextSampler ==
    /\ \E randomValues \in RandomValues : generateFieldElementStep(randomValues)
    /\ UNCHANGED <<gameVars, oauthVars, validatorVars, exportVars, historyVars>>

SpecSampler == InitSampler /\ [][NextSampler]_vars

\* An iteration whose drawn bytes give a candidate below the modulus.
AcceptedDraw ==
    /\ \E randomValues \in RandomValues :
          /\ lessThan(bigEndian(maskTopBits(randomValues)), ModulusBytes)
          /\ generateFieldElementStep(randomValues)
    /\ UNCHANGED <<gameVars, oauthVars, validatorVars, exportVars, historyVars>>

\* The sampler with a random source that does not withhold such a draw
\* for ever.
SpecSamplerFair == SpecSampler /\ WF_vars(AcceptedDraw)

(***************************************************************************)
(* Properties of the proof lifecycle (SpecGame).                           *)
(***************************************************************************)
\* A step in which a generateProof run starts, and one in which a run ends.
RunStarted == BagCardinality(runs') = BagCardinality(runs) + 1
RunEnded == BagCardinality(runs') = BagCardinality(runs) - 1

\* C1: generateProof invoked while the most recent checkSolution has not
\* succeeded on the current grid is rejected: no run starts (no call of
\* execute is made) unless the grid is validated.
C1_NoRunUnlessValidated == [][RunStarted => validated]_vars

\* C2: whenever this.proof is written with an artifact, that artifact is the
\* one backend.generateProof returned to a run that was awaiting verifyProof,
\* verifyProof accepts it, and that run ends in the same step; an artifact
\* that failed verification, or whose run threw, is never stored.
C2_StoredProofVerified ==
    [][(proof' # proof /\ proof' # nullProof) =>
          \E run \in BagToSet(runs) :
             /\ Awaited(run) = "verifyProof"
             /\ Len(run.rets) = 2
             /\ run.proofData = proof'
             /\ VerifierAccepts(proof')
             /\ runs' = runs (-) SetToBag({run})]_vars

\* A proof is stored, and the verifier would have rejected the other artifact.
C2_Witness ==
    /\ proof # nullProof
    /\ proofTime # nullTime
    /\ \E bytes \in ProofBytes : ~VerifierAccepts([proof |-> bytes])

\* C3: within a run the prover calls made so far are a prefix of execute,
\* generateProof, verifyProof; every call but the last has returned, and
\* returned normally (no call follows a throw); the next call is made as
\* soon as its predecessor returned.
C3_ProverOrder ==
    \A run \in BagToSet(runs) :
       /\ Len(run.calls) \in 1..3
       /\ run.calls = SubSeq(ProverOrder, 1, Len(run.calls))
       /\ Len(run.rets) = Len(run.calls) - 1
       /\ \A k \in 1..Len(run.rets) : run.rets[k] = "ok"

\* A run whose execute and generateProof returned and which awaits verifyProof.
C3_Witness ==
    \E run \in BagToSet(runs) :
       run.calls = ProverOrder /\ run.rets = <<"ok", "ok">>

\* C4: when a run ends without storing a proof (a prover call threw or
\* verifyProof returned false), an error is reported and proof generation is
\* unavailable: the proof trigger is disabled.
C4_FailedRunDisablesTrigger ==
    [][(RunEnded /\ status' # "success") =>
          (status' = "error" /\ generateProofBtnDisabled')]_vars

\* C5: a cell edit after a successful checkSolution disables the proof
\* trigger again.
C5_EditDisablesTrigger ==
    [][(validated /\ grid' # grid) => generateProofBtnDisabled']_vars

\* C7: every step that is a confirmed reset leaves proof null, gistUrl null,
\* a field element drawn by generateFieldElement, the grid equal to the
\* challenge and the proof trigger disabled.
C7_ResetPostcondition ==
    [][reset(TRUE) =>
          /\ proof' = nullProof
          /\ gistUrl' = null
          /\ fieldElement' \in generateFieldElement
          /\ grid' = ChallengeGrid
          /\ generateProofBtnDisabled']_vars

\* The state right after a reset made while a run was pending and the timer
\* had advanced.
C7_Witness ==
    /\ status = "info"
    /\ proof = nullProof
    /\ gistUrl = null
    /\ grid = ChallengeGrid
    /\ generateProofBtnDisabled
    /\ sinceStart = 0
    /\ elapsedTime > 0
    /\ runs # EmptyBag

\* C8: at most one generateProof run is pending at any time.
C8_SingleRun == BagCardinality(runs) <= 1

(***************************************************************************)
(* Properties of the validator (SpecValidator).                            *)
(***************************************************************************)
\* Every digit 1..9 occurs exactly once in the nine cells of arr.
EachDigitOnce(arr) ==
    \A d \in 1..9 : Cardinality({k \in 1..9 : arr[k] = d}) = 1

IsSolvedSudoku(g) ==
    /\ \A i \in Idx, j \in Idx : g[i][j] # 0
    /\ \A n \in Idx :
          /\ EachDigitOnce(getRow(g, n))
          /\ EachDigitOnce(getColumn(g, n))
          /\ EachDigitOnce(getBox(g, n))

\* C6: isValid returns valid (and then no error), and checkSolution returns
\* true, exactly for the grids with no 0 in which every row, column and box
\* holds each of 1..9 once; hence the two give the same verdict.
C6_AcceptedIffSolved ==
    /\ vout.isValid.applied =>
          /\ vout.isValid.result.valid <=> IsSolvedSudoku(vgrid)
          /\ vout.isValid.result.valid => DOMAIN vout.isValid.result = {"valid"}
          /\ ~vout.isValid.result.valid => DOMAIN vout.isValid.result = {"valid", "error"}
    /\ vout.checkSolution.applied =>
          (vout.checkSolution.result.ok <=> IsSolvedSudoku(vgrid))

\* Both were applied to a solved grid other than the canonical one.
C6_Witness ==
    /\ vout.isValid.applied
    /\ vout.checkSolution.applied
    /\ vout.isValid.result.valid
    /\ vout.checkSolution.result.ok
    /\ vgrid # SolvedGrid

(***************************************************************************)
(* Properties of the OAuth callback (SpecOAuth).                           *)
(***************************************************************************)
\* C9: a handleCallback whose state differs from the persisted one (none
\* persisted included) ends by throwing 'Invalid OAuth state' and sends no
\* token-exchange request.
C9_StateMismatchRejected ==
    (callback.pc # "idle" /\ callback.call.state # callback.call.savedState) =>
       /\ callback.pc = "done"
       /\ ~callback.fetched
       /\ DOMAIN callback = {"pc", "call", "fetched", "threw"}
       /\ callback.threw = "Invalid OAuth state"

\* A callback arrived when no state was persisted.
C9_Witness ==
    /\ callback.pc = "done"
    /\ callback.call.savedState = null
    /\ ~callback.fetched

\* C10: when a handleCallback completes, no oauth_state is left in
\* sessionStorage.
C10_StateErasedOnEveryOutcome ==
    [][(callback' # callback /\ callback'.pc = "done") => oauth_state' = null]_vars

\* handleCallback let the callback through: it did not throw the CSRF error.
Accepted(cb) ==
    /\ cb.pc # "idle"
    /\ ~("threw" \in DOMAIN cb /\ cb.threw = "Invalid OAuth state")

\* C11: a handleCallback call accepts only the state that is stored (the one
\* the most recent initiateOAuth stored, never one consumed before), and
\* accepting it removes it from storage: while nothing is stored every
\* callback fails with the CSRF error, so a state is accepted at most once.
C11_StateAcceptedOnce ==
    [][(\E code \in CallbackCodes, state \in CallbackStates :
            handleCallback(code, state)) =>
          /\ Accepted(callback') =>
                /\ oauth_state \in generateState
                /\ callback'.call.state = oauth_state
                /\ oauth_state' = null
          /\ oauth_state = null => ~Accepted(callback')]_vars

\* A callback presenting a state of the flow was refused because the stored
\* state had already been consumed by an accepted callback.
C11_Witness ==
    /\ effects # <<>>
    /\ oauth_state = null
    /\ callback.pc = "done"
    /\ callback.call.state \in generateState
    /\ callback.call.savedState = null
    /\ ~Accepted(callback)

\* C12 as stated: a failed exchange (non-2xx response or network error) makes
\* handleCallback fail with an error instead of returning.
C12_ExchangeFailureThrows ==
    (callback.pc = "done" /\ callback.fetched /\ callback.response.kind # "ok") =>
       "threw" \in DOMAIN callback

\* C12, amended: after the state matched and the exchange was requested,
\* handleCallback returns the access_token of the body of an ok response and
\* returns null, a normal return value, on a non-2xx response, a network
\* error or a body that cannot be read.
C12_ExchangeFailureReturnsNull ==
    (callback.pc = "done" /\ callback.fetched) =>
       /\ "threw" \notin DOMAIN callback
       /\ "returned" \in DOMAIN callback
       /\ callback.returned =
             IF callback.response.kind = "ok"
             THEN callback.response.access_token
             ELSE null

\* The exchange failed at the network and handleCallback returned null.
C12_Witness ==
    /\ callback.pc = "done"
    /\ callback.fetched
    /\ callback.response.kind = "networkError"
    /\ callback.returned = null
    /\ githubCallback = [pc |-> "done", outcome |-> "noToken"]

\* C13: a stored pending export leaves sessionStorage only in the step in
\* which createGist succeeded for it (the body of its ok response was
\* read); a failed callback (state mismatch, failed exchange, failed gist
\* creation) leaves it in place.
C13_PendingExportKept ==
    [][(pendingProof # nullItem /\ pendingProof' = nullItem) =>
          /\ githubCallback.pc = "createGistJson"
          /\ githubCallback.proofData = JSONparse(pendingProof)
          /\ githubCallback.token \in AccessTokens
          /\ githubCallback' = [pc |-> "done", outcome |-> "published"]
          /\ gistUrl' # null]_vars

\* The token was obtained, createGist failed, and the export is still stored.
C13_Witness ==
    /\ pendingProof # nullItem
    /\ callback.pc = "done"
    /\ callback.fetched
    /\ callback.response.kind = "ok"
    /\ callback.returned \in AccessTokens
    /\ githubCallback = [pc |-> "done", outcome |-> "threw"]

\* C14: a postToGitHub that redirects while a proof is stored has first
\* stored the serialized export of that proof, then the state nonce, and
\* only then assigned the location.  (The steps that stay on a page holding
\* a proof are the clicks; a page load starts without one.)
C14_ExportPersistedBeforeRedirect ==
    [][(/\ proof # nullProof
        /\ proof' = proof
        /\ effects' # <<>>
        /\ effects'[Len(effects')] = "redirect") =>
          /\ effects' = <<"setItem pendingProof", "setItem oauth_state", "redirect">>
          /\ \E timestamp \in Timestamps :
                pendingProof' = JSONstringify(PendingExport(timestamp))
          /\ oauth_state' \in generateState]_vars

\* After the click, on the page that is about to be left: the proof is
\* still in memory, its export and the state nonce are stored.
C14_Witness ==
    /\ effects = <<"setItem pendingProof", "setItem oauth_state", "redirect">>
    /\ proof # nullProof
    /\ pendingProof # nullItem
    /\ JSONparse(pendingProof).proof = proof.proof
    /\ oauth_state # null
    /\ githubCallback = NoCallback

(***************************************************************************)
(* Properties of the sampler (SpecSampler).                                *)
(***************************************************************************)
\* A decimal string as toString writes it: digits, no leading zero.
IsDecimal(text) ==
    /\ Len(text) >= 1
    /\ \A k \in 1..Len(text) : text[k] \in 0..9
    /\ (Len(text) > 1 => text[1] # 0)

\* a < b for the integers two decimal strings denote
DecimalLess(a, b) ==
    \/ Len(a) < Len(b)
    \/ /\ Len(a) = Len(b)
       /\ \E k \in 1..Len(a) : a[k] < b[k] /\ \A h \in 1..(k - 1) : a[h] = b[h]

\* C15: the value generateFieldElement returns is the decimal string of an
\* integer x with 0 <= x < p.
C15_SampleBelowModulus ==
    rand.accepted =>
       /\ IsDecimal(rand.returned)
       /\ DecimalLess(rand.returned, MODULUS)

\* p - 1, the largest value of the range, was drawn and returned.
C15_Witness ==
    /\ rand.accepted
    /\ rand.returned = [MODULUS EXCEPT ![Len(MODULUS)] = 6]
    /\ raw = <<240>> \o [TailOf(ModulusBytes) EXCEPT ![NBytes - 1] = 0]

\* The bytes drawn with the top 2 bits of the first byte cleared.
Candidate(bytes) == [bytes EXCEPT ![1] = bytes[1] - 64 * (bytes[1] \div 64)]

\* C16: after an iteration the loop has ended exactly if the candidate (the
\* big-endian value of the drawn bytes with the top 2 bits of the first byte
\* cleared, so below 2^254) is below p; a candidate >= p is discarded and
\* the loop goes on; the value returned is the accepted candidate itself,
\* not a reduced one.
C16_AcceptedCandidateUnchanged ==
    draws > 0 =>
       /\ Candidate(raw)[1] < 64
       /\ rand.accepted <=> DecimalLess(toString(Candidate(raw)), MODULUS)
       /\ rand.accepted =>
             /\ rand.rand = Candidate(raw)
             /\ BigInt(rand.returned) = Candidate(raw)

\* A candidate >= p was discarded, and the next one, whose top bits were set
\* in the drawn bytes, was accepted.
C16_Witness ==
    /\ draws = 2
    /\ rand.accepted
    /\ raw[1] = 192
    /\ rand.rand[1] = 0

\* C17: the value returned is the result of exactly 4 settings of the first
\* drawn byte, the other 31 bytes being equal: one per setting of the two
\* cleared bits.
C17_FourDrawsPerValue ==
    rand.accepted =>
       {b \in 0..255 :
           LET outcome == loopOutcome(bigEndian(maskTopBits(<<b>> \o TailOf(raw))))
           IN outcome.accepted /\ outcome.rand = rand.rand}
         = {rand.rand[1] + 64 * j : j \in 0..3}

\* A value was returned whose first drawn byte had the top bit set.
C17_Witness ==
    /\ rand.accepted
    /\ raw[1] = 128
    /\ rand.rand[1] = 0
    /\ rand.returned # <<0>>

(***************************************************************************)
(* Properties of isValid's scan order (SpecValidator).                     *)
(***************************************************************************)
CellOk(g, c) == g[c \div 9][c % 9] \in 1..9
RowOk(g, i) == EachDigitOnce(getRow(g, i))
ColumnOk(g, j) == EachDigitOnce(getColumn(g, j))
BoxOk(g, b) == EachDigitOnce(getBox(g, b))

\* C18: the violation isValid reports is that of the earliest failing check
\* in the order cells (row-major), rows 0..8, columns 0..8, boxes 0..8: a
\* cell error names a failing cell before which every cell passed; a row
\* error is reported only when every cell passed, and names the lowest
\* failing row; a column error only when every cell and row passed; a box
\* error only when every cell, row and column passed.
C18_FirstViolationInScanOrder ==
    (vout.isValid.applied /\ ~vout.isValid.result.valid) =>
       LET e == vout.isValid.result.error
           kind == e[1]
       IN /\ kind \in {"empty", "invalid"} =>
                LET c == 9 * (e[2] - 1) + (e[3] - 1)
                IN /\ ~CellOk(vgrid, c)
                   /\ \A d \in 0..(c - 1) : CellOk(vgrid, d)
                   /\ (kind = "empty" <=> vgrid[e[2] - 1][e[3] - 1] = 0)
          /\ kind = "row" =>
                /\ \A c \in Cells : CellOk(vgrid, c)
                /\ ~RowOk(vgrid, e[2] - 1)
                /\ \A i \in 0..(e[2] - 2) : RowOk(vgrid, i)
          /\ kind = "column" =>
                /\ \A c \in Cells : CellOk(vgrid, c)
                /\ \A i \in Idx : RowOk(vgrid, i)
                /\ ~ColumnOk(vgrid, e[2] - 1)
                /\ \A j \in 0..(e[2] - 2) : ColumnOk(vgrid, j)
          /\ kind = "box" =>
                LET b == 3 * (e[2] - 1) + (e[3] - 1)
                IN /\ \A c \in Cells : CellOk(vgrid, c)
                   /\ \A i \in Idx : RowOk(vgrid, i) /\ ColumnOk(vgrid, i)
                   /\ ~BoxOk(vgrid, b)
                   /\ \A a \in 0..(b - 1) : BoxOk(vgrid, a)
          /\ kind \in {"empty", "invalid", "row", "column", "box"}

\* A box error was reported: every cell, row and column passed.
C18_Witness ==
    /\ vout.isValid.applied
    /\ ~vout.isValid.result.valid
    /\ vout.isValid.result.error[1] = "box"
    /\ vout.isValid.result.error # <<"box", 1, 1>>

\* The cells of g holding a value outside [0,9].
OutOfRangeCells(g) == {c \in Cells : g[c \div 9][c % 9] < 0 \/ g[c \div 9][c % 9] > 9}

\* C19 as stated: on a grid with a cell outside [0,9], the violation reported
\* is the first such cell.
C19_ReportsOutOfRangeCell ==
    (vout.isValid.applied /\ OutOfRangeCells(vgrid) # {}) =>
       LET c == Min(OutOfRangeCells(vgrid))
       IN vout.isValid.result =
             [valid |-> FALSE, error |-> <<"invalid", (c \div 9) + 1, (c % 9) + 1>>]

\* C19, amended: on a grid with a cell outside [0,9] isValid returns
\* invalid, and reports the first cell in row-major order that is empty or
\* out of range: the first out-of-range cell when no empty cell precedes
\* it, that empty cell otherwise.
C19_ReportsFirstBadCell ==
    (vout.isValid.applied /\ OutOfRangeCells(vgrid) # {}) =>
       LET c == Min(OutOfRangeCells(vgrid))
           zerosBefore == {d \in 0..(c - 1) : vgrid[d \div 9][d % 9] = 0}
       IN vout.isValid.result =
             IF zerosBefore = {}
             THEN [valid |-> FALSE,
                   error |-> <<"invalid", (c \div 9) + 1, (c % 9) + 1>>]
             ELSE [valid |-> FALSE,
                   error |-> <<"empty", (Min(zerosBefore) \div 9) + 1,
                               (Min(zerosBefore) % 9) + 1>>]

\* The last cell is out of range and the first one is empty.
C19_Witness ==
    /\ vout.isValid.applied
    /\ vgrid[8][8] = 10
    /\ vgrid[0][0] = 0
    /\ vout.isValid.result.error = <<"empty", 1, 1>>

(***************************************************************************)
(* Properties of getConflicts (SpecConflicts).                             *)
(***************************************************************************)
RowConflict(g, row, col, value) ==
    \E j \in Idx \ {col} : g[row][j] = value
ColumnConflict(g, row, col, value) ==
    \E i \in Idx \ {row} : g[i][col] = value
BoxConflict(g, row, col, value) ==
    \E i \in Idx \ {row}, j \in Idx \ {col} :
       /\ i \div 3 = row \div 3
       /\ j \div 3 = col \div 3
       /\ g[i][j] = value

\* C20: on any grid, complete or not, getConflicts reports a row conflict
\* iff another cell of the row holds the value, a column conflict iff
\* another cell of the column holds it, and a box conflict iff a cell of the
\* same box in a different row and a different column holds it, each at
\* most once; on the challenge, cell (0,2) with value 5 yields exactly a row
\* conflict.
C20_ConflictsReported ==
    vout.applied =>
       LET types == {vout.result[k].type : k \in 1..Len(vout.result)}
           kinds == {vout.labels[k][1] : k \in 1..Len(vout.labels)}
       IN /\ "row" \in types <=> RowConflict(vgrid, vout.row, vout.col, vout.value)
          /\ "column" \in types <=> ColumnConflict(vgrid, vout.row, vout.col, vout.value)
          /\ "box" \in types <=> BoxConflict(vgrid, vout.row, vout.col, vout.value)
          /\ types \subseteq {"row", "column", "box"}
          /\ Cardinality(types) = Len(vout.result)
          /\ "Row" \in kinds <=> "row" \in types
          /\ "Column" \in kinds <=> "column" \in types
          /\ "Box" \in kinds <=> "box" \in types
          /\ Len(vout.labels) = Len(vout.result)
          /\ (vgrid = ChallengeGrid /\ vout.row = 0 /\ vout.col = 2 /\ vout.value = 5) =>
                /\ vout.result = <<[type |-> "row", position |-> 0]>>
                /\ vout.labels = << <<"Row", 1>> >>

\* getConflicts was applied to the challenge, cell (0,2), value 5.
C20_Witness ==
    /\ vout.applied
    /\ vgrid = ChallengeGrid
    /\ vout.row = 0
    /\ vout.col = 2
    /\ vout.value = 5
    /\ Len(vout.result) = 1

(***************************************************************************)
(* Properties of matchesChallenge (SpecMatches).                           *)
(***************************************************************************)
\* The cells in which two grids differ.
Differing(g, h) == {<<i, j>> \in Idx \X Idx : g[i][j] # h[i][j]}

\* C21: matchesChallenge(candidate, challenge) is true iff every non-zero
\* challenge cell equals the same cell of the candidate, whatever the zero
\* challenge cells face; it is true for the solution of the challenge and
\* false for the solution with one fixed-clue cell changed.
C21_MatchesFixedCells ==
    vout.applied =>
       /\ vout.result <=>
             \A i \in Idx, j \in Idx :
                vout.challenge[i][j] = 0 \/ vgrid[i][j] = vout.challenge[i][j]
       /\ (vgrid = SolvedGrid /\ vout.challenge = ChallengeGrid) => vout.result
       /\ (/\ vout.challenge = ChallengeGrid
           /\ Cardinality(Differing(vgrid, SolvedGrid)) = 1
           /\ \A c \in Differing(vgrid, SolvedGrid) : fixedCells[c[1]][c[2]])
             => ~vout.result

\* The solution was compared with the challenge and matched; its free cells
\* face zero cells of the challenge.
C21_Witness ==
    /\ vout.applied
    /\ vgrid = SolvedGrid
    /\ vout.challenge = ChallengeGrid
    /\ vout.result

(***************************************************************************)
(* Properties of the session (SpecGame), continued.                        *)
(***************************************************************************)
\* C22: whenever checkSolution succeeds, and whenever a generateProof run
\* starts (the candidate is handed to noir.execute), the candidate equals
\* the challenge in every cell where the challenge is non-zero.  No handler
\* compares the two: the candidate extends the challenge because the cells of
\* the challenge take no input.
C22_SubmissionExtendsChallenge ==
    [][((checkSolution /\ validated') \/ RunStarted) =>
          matchesChallenge(grid, ChallengeGrid)]_vars

\* Grids a submission could hold if a cell of the challenge were written:
\* the solution with two rows of a band exchanged, and with two columns of
\* a stack exchanged.  Each is a solved Sudoku grid.
ContradictingCandidates == {SwapRows(SolvedGrid, 0, 1), SwapColumns(SolvedGrid, 0, 1)}

\* C22 as stated: the candidate extends the challenge, and this is checked
\* before the submission is accepted, that is, the test by which
\* checkSolution accepts a candidate rejects the candidates that contradict
\* the challenge.
C22_CheckedBeforeAccepted ==
    [][/\ ((checkSolution /\ validated') \/ RunStarted) =>
             matchesChallenge(grid, ChallengeGrid)
       /\ checkSolution =>
             \A candidate \in ContradictingCandidates \cup {grid} :
                checkSolutionResult(candidate).ok =>
                   matchesChallenge(candidate, ChallengeGrid)]_vars

\* A run is pending on a grid checkSolution accepted.
C22_Witness ==
    /\ validated
    /\ BagCardinality(runs) > 0
    /\ grid = SolvedGrid

(***************************************************************************)
(* Properties of export and external verification (SpecVerify).            *)
(***************************************************************************)
\* The verification was given the artifact as exported: its public inputs as
\* the export's JSON writes them, its proof as the export's hex.
PastedFrom(proofBytes, publicInputs) ==
    /\ verification.pc # "idle"
    /\ verification.publicInputsInput = stringifyStrings(publicInputs, 1)
    /\ verification.proofHexInput = proofToHex(proofBytes)

RoundTrips(proofBytes, publicInputs) ==
    /\ verification.decoded.ok
    /\ verification.decoded.proof = proofBytes
    /\ Len(verification.decoded.publicInputs) = Len(publicInputs)
    /\ \A k \in 1..Len(publicInputs) :
          verification.decoded.publicInputs[k] = jsString(publicInputs[k])

\* C23 as stated: for every proof byte sequence and every publicInputs
\* sequence, encoding as for export and decoding as for external
\* verification gives back the same bytes and the same public inputs.
C23_RoundTripAnyProof ==
    \A b \in ArtifactProofs, p \in ArtifactPublicInputs :
       PastedFrom(b, p) => RoundTrips(b, p)

\* C23, amended: for every non-empty proof byte sequence and every
\* publicInputs sequence, encoding as for export and decoding as for external
\* verification gives back the same bytes and the same public inputs in the
\* same order.
C23_RoundTripNonEmptyProof ==
    \A b \in ArtifactProofs \ {<<>>}, p \in ArtifactPublicInputs :
       PastedFrom(b, p) => RoundTrips(b, p)

\* An artifact whose bytes need padding and whose input needs an escape went
\* through the round trip.
C23_Witness ==
    /\ PastedFrom(<<10, 171>>, << <<"a", "\"", "b">> >>)
    /\ RoundTrips(<<10, 171>>, << <<"a", "\"", "b">> >>)

\* The verification got past the public inputs: they are a JSON array.
PublicInputsPassed ==
    /\ verification.pc # "idle"
    /\ verification.publicInputsInput # <<>>
    /\ publicInputsOk(JSONparseText(verification.publicInputsInput))

AllHexDigits(text) == \A k \in 1..Len(text) : isHexDigit(text[k])

\* After one optional leading "0x", an even-length string of hex digits.
StatedHexOk(text) ==
    \E prefix \in {<<>>, <<"0", "x">>} :
       /\ Len(prefix) <= Len(text)
       /\ SubSeq(text, 1, Len(prefix)) = prefix
       /\ AllHexDigits(SubSeq(text, Len(prefix) + 1, Len(text)))
       /\ (Len(text) - Len(prefix)) % 2 = 0

\* Leading whitespace, then one optional "0x", then hex digits and whitespace
\* in any arrangement, the digits at least two and even in number.
LenientHexOk(text) ==
    \E i \in 0..Len(text), prefix \in {<<>>, <<"0", "x">>} :
       /\ \A k \in 1..i : text[k] \in Whitespace
       /\ i + Len(prefix) <= Len(text)
       /\ SubSeq(text, i + 1, i + Len(prefix)) = prefix
       /\ LET rest == SubSeq(text, i + Len(prefix) + 1, Len(text))
              digits == SelectSeq(rest, LAMBDA ch : ch \notin Whitespace)
          IN /\ digits # <<>>
             /\ AllHexDigits(digits)
             /\ Len(digits) % 2 = 0

HexRejected ==
    /\ verification.calls = <<>>
    /\ ~verification.result.success
    /\ verification.result.message \in
          {"Invalid proof hex format", "Please enter both public inputs and proof hex"}

\* C24 as stated: the pasted proof is decoded iff, after one optional
\* leading "0x" is stripped, it is an even-length string of hex digits;
\* every other input is rejected with a format error and verifyProof is not
\* invoked.
C24_HexAcceptedAsStated ==
    PublicInputsPassed =>
       /\ verification.decoded.ok <=> StatedHexOk(verification.proofHexInput)
       /\ ~verification.decoded.ok => HexRejected

\* C24, amended: the pasted proof is decoded iff, after leading and trailing
\* whitespace is trimmed, one optional leading "0x" is stripped and all
\* remaining whitespace is removed, it is a non-empty even-length string of
\* hex digits in either case; every other input is rejected with a format
\* error and verifyProof is not invoked for it.
C24_HexAcceptedLenient ==
    PublicInputsPassed =>
       /\ verification.decoded.ok <=> LenientHexOk(verification.proofHexInput)
       /\ ~verification.decoded.ok => HexRejected

\* A proof pasted with a space between its bytes was decoded.
C24_Witness ==
    /\ PublicInputsPassed
    /\ verification.proofHexInput = <<"a", "b", " ", "c", "d">>
    /\ verification.decoded.ok
    /\ verification.decoded.proof = <<171, 205>>

\* The text is a JSON array whose elements are all strings.
IsArrayOfStrings(text) ==
    LET parsed == JSONparseText(text)
    IN /\ parsed.ok
       /\ parsed.value.kind = "array"
       /\ \A k \in 1..Len(parsed.value.items) : parsed.value.items[k].kind = "string"

\* C25: a verification whose publicInputs text is not a JSON array of
\* strings (not an array, or an array with a non-string element) is rejected
\* with a format error and verifyProof is not invoked, here with the prover
\* initialized.
C25_NonStringInputsRejected ==
    (/\ verification.pc # "idle"
     /\ backend
     /\ ~IsArrayOfStrings(verification.publicInputsInput)) =>
       /\ verification.calls = <<>>
       /\ verification.pc = "done"
       /\ ~verification.result.success
       /\ verification.result.message \in
             {"Invalid public inputs format. Expected JSON array of strings.",
              "Invalid proof hex format",
              "Please enter both public inputs and proof hex"}

\* C26: every step of an external verification, whatever its outcome
\* (valid, invalid, malformed input, prover error, prover not initialized),
\* leaves the session's stored proof, proof time, field element, candidate
\* grid, gist reference and lifecycle state (timer, proof trigger, status,
\* pending runs) unchanged, and the only prover call it makes is verifyProof.
C26_VerificationLeavesSession ==
    [][(verification' # verification) =>
          /\ UNCHANGED <<proof, proofTime, fieldElement, grid, gistUrl>>
          /\ UNCHANGED <<timerInterval, elapsedTime, generateProofBtnDisabled,
                         status, runs, validated, noir, backend>>
          /\ \A k \in 1..Len(verification'.calls) :
                verification'.calls[k] = "verifyProof"
          /\ Len(verification'.calls) <= 1]_vars

\* A session holding its own proof verified another, valid, proof.
C26_Witness ==
    /\ proof = [proof |-> <<171>>, publicInputs |-> <<"11">>]
    /\ verification.pc = "done"
    /\ verification.result.success
    /\ verification.decoded.proof = <<10, 171>>

(***************************************************************************)
(* Properties of the exports (SpecOAuth).                                  *)
(***************************************************************************)
\* C27: every ProofExport the session produces, here the pending OAuth
\* payload, has proof equal to the lowercase hex of the artifact bytes, two
\* digits per byte, publicInputs equal to the artifact's, challengeId equal
\* to the session's field element and timeInMs equal to the retained proof
\* time, a non-negative integer.
C27_ExportHoldsHexProof ==
    [][(pendingProof' # pendingProof /\ pendingProof' # nullItem) =>
          LET export == JSONparse(pendingProof')
          IN /\ Len(export.proof) = 2 * Len(proof.proof)
             /\ export.proof = proofToHex(proof.proof)
             /\ export.publicInputs = proof.publicInputs
             /\ export.challengeId = fieldElement
             /\ export.timeInMs = proofTime
             /\ export.timeInMs >= 0]_vars

(***************************************************************************)
(* Properties of the timer and the field element (SpecGame).               *)
(***************************************************************************)
\* A step that stores a proof.
ProofStored == proof' # proof /\ proof' # nullProof

\* C28: the time retained with a proof is the elapsed time frozen when
\* checkSolution succeeded: while the timer is stopped the elapsed time does
\* not change, only a confirmed reset starts the timer again, and whenever a
\* proof is stored the timer is stopped and the proof time recorded is that
\* frozen elapsed time.
C28_ProofTimeIsFrozenTime ==
    [][/\ ~timerInterval => elapsedTime' = elapsedTime
       /\ (~timerInterval /\ timerInterval') => reset(TRUE)
       /\ ProofStored => (~timerInterval /\ proofTime' = elapsedTime)]_vars

\* C29: a confirmed reset restarts the elapsed time from zero: right after
\* it the elapsed time is 0, a timer is running, and no elapsed time or
\* proof time of the previous game is kept.
C29_ResetClearsTimes ==
    [][reset(TRUE) =>
          /\ elapsedTime' = 0
          /\ timerInterval'
          /\ proofTime' = nullTime]_vars

\* C30 (SpecPage): the field element changes only by a confirmed reset.
\* Every other step of the page leaves it unchanged: cell edits,
\* checkSolution, generateProof and the settling of its prover calls
\* (success or failure), the exports (copyFieldElement, copyProofData and
\* the settling of the clipboard), gist publication (uploadToGist and the
\* settling of its request, the submission of a gist URL), external
\* verification (performVerification and the settling of its verifyProof),
\* the hint, timer ticks and an unconfirmed reset.
C30_FieldElementFixedUntilReset ==
    [][fieldElement' # fieldElement => reset(TRUE)]_vars

\* The stored proof was exported by uploadToGist under the session's field
\* element, the gist was created and its URL kept, an external verification
\* ran to its end, and the proof is still bound to the field element.
C30_Witness ==
    /\ proof # nullProof
    /\ proof.publicInputs = <<fieldElement>>
    /\ exported.by = "uploadToGist"
    /\ exported.value.challengeId = fieldElement
    /\ gistUrl = "https://gist.github.com/alice/d4e5f6"
    /\ verification.pc = "done"
    /\ verification.calls = <<"verifyProof">>

\* A step in which a run awaiting verifyProof ends and its artifact, which
\* the verifier accepts, becomes the stored proof.
StoredByRun ==
    \E run \in BagToSet(runs) :
       /\ Awaited(run) = "verifyProof"
       /\ VerifierAccepts(run.proofData)
       /\ proof' = run.proofData
       /\ runs' = runs (-) SetToBag({run})

\* C31 (SpecPage): the stored proof changes only when a successful
\* generateProof run stores its artifact or a confirmed reset clears it, and
\* the proof time changes only when a run stores its artifact.  Every other
\* step of the page leaves both unchanged: cell edits, checkSolution, failed
\* or throwing runs, the exports, however often repeated (copyFieldElement,
\* copyProofData, uploadToGist and the settling of the clipboard and of the
\* upload), the submission of a gist URL, external verification
\* (performVerification and the settling of its verifyProof), the hint and
\* timer ticks.
C31_StoredProofImmutable ==
    [][/\ proof' # proof => (StoredByRun \/ (reset(TRUE) /\ proof' = nullProof))
       /\ proofTime' # proofTime => StoredByRun]_vars

\* The stored proof was exported twice (by uploadToGist, whose request is
\* still in flight, and then by copyProofData), an external verification
\* found a proof valid, and a later run ended in an error: the proof and its
\* proof time are those of the session that stored them.
C31_Witness ==
    /\ proof = [proof |-> <<171>>, publicInputs |-> <<"11">>]
    /\ proofTime = 0
    /\ exported.by = "copyProofData"
    /\ exported.value.proof = proofToHex(proof.proof)
    /\ uploads # EmptyBag
    /\ verification.pc = "done"
    /\ verification.result.success
    /\ status = "error"
    /\ runs = EmptyBag

\* An iteration of the sampler's loop ran in this step.
Iterated == ~rand.accepted /\ samplerVars' # samplerVars

\* C32: the sampler terminates: an iteration whose candidate is below p
\* returns in that iteration, nothing is drawn after the return, and with a
\* random source that eventually yields a draw whose masked value is below
\* p the loop eventually returns.
C32_SamplerTerminates ==
    /\ [][/\ (Iterated /\ \E candidate \in {toString(Candidate(raw'))} :
                                DecimalLess(candidate, MODULUS))
                => rand'.accepted
           /\ (rand.accepted => UNCHANGED samplerVars)]_vars
    /\ <>(rand.accepted)

\* The loop returned after two rejected candidates.
C32_Witness ==
    /\ rand.accepted
    /\ draws = MaxDraws
    /\ raw = <<112>> \o [TailOf(ModulusBytes) EXCEPT ![NBytes - 1] = 0]

(***************************************************************************)
(* Properties of the boxes and of the conflict scans (SpecBoxes,            *)
(* SpecConflicts).                                                         *)
(***************************************************************************)
\* The cells of the 3x3 box whose top-left cell is (top, left).
BoxAt(top, left) == {<<i, j>> : i \in top..(top + 2), j \in left..(left + 2)}

\* The numbers of the boxes in which getBox finds the cell (row, col).
BoxesHolding(row, col) ==
    {b \in 0..8 : \E k \in 1..9 : getBox(LabelGrid, b)[k] = LabelGrid[row][col]}

\* C33: getBox(grid, b) returns the 9 cells of the box whose top-left cell
\* is (floor(b/3)*3, (b mod 3)*3): as many cells of each value as that box
\* holds; every cell belongs to exactly one box; and the box number
\* getConflicts reports for (row, col) is floor(row/3)*3 + floor(col/3), the
\* number of the box that holds the cell.
C33_BoxesPartitionGrid ==
    /\ (vout.applied /\ "box" \in DOMAIN vout) =>
          LET cells == BoxAt((vout.boxNum \div 3) * 3, (vout.boxNum % 3) * 3)
              values == {vgrid[c[1]][c[2]] : c \in cells}
                           \cup {vout.box[k] : k \in 1..Len(vout.box)}
          IN /\ Len(vout.box) = 9
             /\ \A v \in values :
                   Cardinality({k \in 1..9 : vout.box[k] = v})
                      = Cardinality({c \in cells : vgrid[c[1]][c[2]] = v})
    /\ (vout.applied /\ "result" \in DOMAIN vout) =>
          /\ Cardinality(BoxesHolding(vout.row, vout.col)) = 1
          /\ \A k \in 1..Len(vout.result) :
                vout.result[k].type = "box" =>
                   /\ vout.result[k].position
                         = (vout.row \div 3) * 3 + (vout.col \div 3)
                   /\ vout.result[k].position \in BoxesHolding(vout.row, vout.col)

\* getBox returned box 5 of the grid of cell numbers: the cells of rows 3..5
\* and columns 6..8.
C33_Witness ==
    /\ vout.applied
    /\ "box" \in DOMAIN vout
    /\ vgrid = LabelGrid
    /\ vout.boxNum = 5
    /\ vout.box = <<33, 34, 35, 42, 43, 44, 51, 52, 53>>

\* getConflicts with the return in the box loops taken out: the row and the
\* column are scanned, then every cell of the box, and a box conflict is
\* listed if some cell of it in another row and another column holds the
\* value.
getConflictsFullScan(g, row, col, value) ==
    LET boxRow == (row \div 3) * 3
        boxCol == (col \div 3) * 3
        hits == {c \in 0..8 :
                    /\ boxRow + (c \div 3) # row
                    /\ boxCol + (c % 3) # col
                    /\ g[boxRow + (c \div 3)][boxCol + (c % 3)] = value}
    IN checkRow(g, row, col, value, 0)
          \o checkColumn(g, row, col, value, 0)
          \o (IF hits = {} THEN <<>>
              ELSE <<[type |-> "box",
                      position |-> (row \div 3) * 3 + (col \div 3)]>>)

\* row before column before box
KindRank(type) == CASE type = "row" -> 1 [] type = "column" -> 2 [] type = "box" -> 3

\* C34: getConflicts lists at most one conflict of each kind, in the order
\* row, column, box, and the return on the first box hit skips nothing of
\* the row and column scans: the list equals the one obtained by scanning
\* the whole box without returning from inside the loops.
C34_EarlyReturnSkipsNothing ==
    vout.applied =>
       /\ \A k \in 1..Len(vout.result), m \in 1..Len(vout.result) :
             k < m => KindRank(vout.result[k].type) < KindRank(vout.result[m].type)
       /\ vout.result = getConflictsFullScan(vgrid, vout.row, vout.col, vout.value)

\* The box loops returned on the first of two hits, the rest of the box
\* unscanned, after the row scan had pushed a conflict.
C34_Witness ==
    /\ vout.applied
    /\ Len(vout.result) >= 2
    /\ vout.result[1].type = "row"
    /\ vout.result[Len(vout.result)].type = "box"
    /\ Cardinality({c \in BoxAt((vout.row \div 3) * 3, (vout.col \div 3) * 3) :
                       /\ c[1] # vout.row
                       /\ c[2] # vout.col
                       /\ vgrid[c[1]][c[2]] = vout.value}) = 2

\* The other cells of the row, the column and the box of (row, col).
Peers(row, col) ==
    ({<<row, j>> : j \in Idx} \cup {<<i, col>> : i \in Idx}
        \cup BoxAt((row \div 3) * 3, (col \div 3) * 3)) \ {<<row, col>>}

\* C39: getConflicts returns an empty list iff no other cell of the row, the
\* column or the 3x3 box of (row, col) holds the value; so does the game's
\* own getConflicts.
C39_EmptyIffNoPeerHoldsValue ==
    vout.applied =>
       LET free == \A c \in Peers(vout.row, vout.col) : vgrid[c[1]][c[2]] # vout.value
       IN /\ vout.result = <<>> <=> free
          /\ vout.labels = <<>> <=> free

\* The value is held only by a cell of the box in the same row, which the
\* box loops skip: the row scan reported it.
C39_Witness ==
    /\ vout.applied
    /\ Len(vout.result) = 1
    /\ vout.result[1].type = "row"
    /\ \E j \in Idx : /\ j # vout.col
                      /\ j \div 3 = vout.col \div 3
                      /\ vgrid[vout.row][j] = vout.value
    /\ \A c \in Peers(vout.row, vout.col) :
          vgrid[c[1]][c[2]] = vout.value => c[1] = vout.row /\ c[2] \div 3 = vout.col \div 3

(***************************************************************************)
(* Properties of the candidate grid (SpecGame).                            *)
(***************************************************************************)
\* The number a single digit 1..9 denotes.
DigitValue ==
    ("1" :> 1) @@ ("2" :> 2) @@ ("3" :> 3) @@ ("4" :> 4) @@ ("5" :> 5)
       @@ ("6" :> 6) @@ ("7" :> 7) @@ ("8" :> 8) @@ ("9" :> 9)

\* The grid after a cell input, as the claim states it.
GridAfterInput(row, col, value) ==
    IF value = <<>>
    THEN [grid EXCEPT ![row][col] = 0]
    ELSE IF Len(value) = 1 /\ value[1] \in DOMAIN DigitValue
         THEN [grid EXCEPT ![row][col] = DigitValue[value[1]]]
         ELSE grid

\* C36: every cell of the candidate grid is an integer in 0..9; a cell input
\* that is not a single digit 1..9 leaves the grid unchanged, an empty input
\* sets the cell to 0, and a digit sets the edited cell and no other.
C36_GridCellsInRange ==
    /\ [](\A i \in Idx, j \in Idx : grid[i][j] \in 0..9)
    /\ [][\A cell \in FreeCells \cup ReadOnlyCells, value \in CellInputs :
             handleCellInput(cell[1], cell[2], value)
                => grid' = GridAfterInput(cell[1], cell[2], value)]_vars

\* The digit 2 was typed into the free cell (8, 6) of the nearly solved
\* grid; no other cell changed.
C36_Witness ==
    /\ grid[8][6] = 2
    /\ \A i \in Idx, j \in Idx : <<i, j>> # <<8, 6>> => grid[i][j] = NearSolvedGrid[i][j]

(***************************************************************************)
(* Progress of the generateProof runs (SpecObservedRun).                   *)
(***************************************************************************)
\* C35: provided each prover call of a run resolves or rejects in the end,
\* the run completes: whichever run is followed from its start, whatever
\* other runs start and end meanwhile, it is eventually no longer in flight;
\* and the step in which a run completes (proof stored, verification false,
\* or error) leaves the trigger enabled and the status no longer loading on
\* behalf of that run.
C35_RunsComplete ==
    /\ [][RunEnded => /\ ~generateProofBtnDisabled'
                      /\ status' \in {"success", "error"}]_vars
    /\ [](observed # NoRun => BagIn(observed, runs))
    /\ (observed # NoRun) ~> (observed = NoRun)

\* A run completed with its proof stored, leaving the trigger enabled, while
\* the followed run, started before that one ended, still awaits its last
\* prover call.
C35_Witness ==
    /\ observed # NoRun
    /\ Awaited(observed) = "verifyProof"
    /\ runs = SetToBag({observed})
    /\ ~generateProofBtnDisabled
    /\ status = "success"
    /\ proof # nullProof

(***************************************************************************)
(* Properties of the export and the upload (SpecExport, SpecUpload).       *)
(***************************************************************************)
\* C37: in every export the challengeId equals the field element passed to
\* the circuit as public input when the exported proof was generated.
C37_ExportNamesProvenChallenge ==
    exported.by # "none" =>
       exported.value.challengeId = exported.value.publicInputs[1]

\* C40: a gist reference is held only while a proof is stored.
C40_GistUrlImpliesProof == gistUrl # null => proof # nullProof

(***************************************************************************)
(* Properties of the export published by the OAuth flow (SpecOAuth).       *)
(***************************************************************************)
\* The page load whose handleCallback let the callback through and requested
\* the token exchange.
AcceptedLoad ==
    /\ oauth_state # null
    /\ oauth_state' = null
    /\ callback'.pc = "fetch"

\* C38: the artifact handed to createGist after a successful OAuth callback
\* is the export persisted by the start of that same flow: createGist gets
\* what pendingProof holds, and when a callback is accepted while an export
\* is pending, the postToGitHub that stored the accepted state (the most
\* recent one) wrote that export.
C38_PublishedExportIsOfSameFlow ==
    /\ [](githubCallback.pc = "createGist" =>
             githubCallback.proofData = JSONparse(pendingProof))
    /\ [][(AcceptedLoad /\ pendingProof # nullItem) =>
             (effects # <<>> /\ effects[1] = "setItem pendingProof")]_vars

====
